---- MODULE Spec2Model ----
(***************************************************************************)
(* The semantic retrieval subsystem of StudEsprit: the document store of   *)
(* library/models.py, the segmentation / embedding / search services of    *)
(* core/library_services.py, the profile vector search of ai/embeddings.py *)
(* and the admin document handlers of library/admin.py.                    *)
(*                                                                         *)
(* Texts are sequences of one-character strings.  Vectors have integer     *)
(* components; a similarity dot/(|q|*|e|) is kept exactly as the pair      *)
(* [num |-> dot, den2 |-> |q|^2 * |e|^2] and compared by cross             *)
(* multiplication, so no floating point rounding is modelled.              *)
(***************************************************************************)
EXTENDS Integers, Sequences, FiniteSets, TLC

\* ------------------------------------------------------------------ bounds
\* Number of requests (uploads, searches, reindex runs, deletions and admin
\* requests together) in one behaviour; they run concurrently.
MaxRequests == 3

\* Number of requests in one behaviour of SpecFaults, where the reads and
\* writes of the store may raise.
MaxFaultRequests == 2
\* Number of documents in the stores the direct calls are made on.
MaxStored == 2
\* Largest top_k of a direct call.
MaxK == 3
\* Number of documents of the one owner whose searches are checked for
\* completeness of the scope; it is past SEARCH_PAGE_SIZE.
MaxOwnerDocs == 101

\* Number of paragraphs of a stored document in SpecRows.
MaxRows == 2

\* Number of calls in one behaviour of SpecEmbed.
MaxEmbedCalls == 3

\* Number of toggle_like calls in one behaviour of SpecLikes.
MaxLikeCalls == 3

\* Number of calls in one behaviour of SpecStudy.
MaxStudyCalls == 3

\* Length of the texts given to the segmenter in SpecSegment, and the largest
\* max_length it is called with.
MaxText == 5
MaxLength == 4

\* ------------------------------------------------------- program constants
\* ai/embeddings.py: DIM
DIM == 384
\* split_text_into_paragraphs: default min_length and max_length
MIN_LENGTH == 100
MAX_LENGTH == 1000
\* search_documents: page and page_size passed to get_user_documents
SEARCH_PAGE == 1
SEARCH_PAGE_SIZE == 100
\* the search_documents view: top_k
SEARCH_TOP_K == 10
\* hashlib.sha256(seed).digest() is 32 bytes long; val % 1000 and / 500.0 map
\* a pair of bytes to [-1, 1]
DIGEST_SIZE == 32
\* personalized_study.py: the segmentation of analyze_user_documents, its page
\* of documents, the length of a title, the threshold of _merge_similar_topics
\* in hundredths and the mastery score that means mastered
STUDY_MIN_LENGTH == 60
STUDY_MAX_LENGTH == 1200
STUDY_PAGE_SIZE == 1000
TITLE_LENGTH == 80
MERGE_THRESHOLD == 85
MASTERED == 80
VAL_MODULUS == 1000
VAL_SCALE == 500

\* ------------------------------------------------------------------- texts
IsSpace(c) == c \in {" ", "\n", "\t"}
IsStop(c) == c \in {".", "!", "?"}

Min2(a, b) == IF a < b THEN a ELSE b
Max2(a, b) == IF a > b THEN a ELSE b

SetMin(S) == CHOOSE x \in S : \A y \in S : x <= y
SetMax(S) == CHOOSE x \in S : \A y \in S : x >= y

\* n copies of the character c
Rep(c, n) == [i \in 1..n |-> c]

\* str.strip() that takes nothing off.  The code does not do this.
strip_nothing(s) == s

\* str.strip()
strip(s) ==
    LET keep == {i \in 1..Len(s) : ~IsSpace(s[i])}
    IN  IF keep = {} THEN <<>> ELSE SubSeq(s, SetMin(keep), SetMax(keep))

\* re.sub(r'\s+', ' ', s): every maximal run of whitespace becomes one space
\* What the character at position i contributes: a run of whitespace is
\* replaced as a whole, so only its last character yields the space.
sub_spaces_at(s, i) ==
    IF IsSpace(s[i])
    THEN IF i < Len(s) /\ IsSpace(s[i + 1]) THEN <<>> ELSE <<" ">>
    ELSE <<s[i]>>

RECURSIVE sub_spaces_range(_, _, _)
sub_spaces_range(s, lo, hi) ==
    IF lo > hi THEN <<>>
    ELSE IF lo = hi THEN sub_spaces_at(s, lo)
    ELSE sub_spaces_range(s, lo, (lo + hi) \div 2)
         \o sub_spaces_range(s, (lo + hi) \div 2 + 1, hi)

sub_spaces(s) == sub_spaces_range(s, 1, Len(s))

\* The end of the leftmost match of \n\s*\n that starts at position i, or 0:
\* \s* is greedy, so the match ends at the last newline of the whitespace run.
BlankEnd(s, i) ==
    LET ends == {j \in (i+1)..Len(s) :
                    /\ s[j] = "\n"
                    /\ \A m \in (i+1)..(j-1) : IsSpace(s[m])}
    IN  IF s[i] = "\n" /\ ends # {} THEN SetMax(ends) ELSE 0

\* re.split(r'\n\s*\n', s)
RECURSIVE split_blank(_)
split_blank(s) ==
    LET starts == {i \in 1..Len(s) : BlankEnd(s, i) # 0}
    IN  IF starts = {} THEN <<s>>
        ELSE LET i == SetMin(starts)
             IN  <<SubSeq(s, 1, i - 1)>> \o split_blank(SubSeq(s, BlankEnd(s, i) + 1, Len(s)))

\* re.split(r'[.!?]+', s)
RECURSIVE split_sentences(_)
split_sentences(s) ==
    LET stops == {i \in 1..Len(s) : IsStop(s[i])}
    IN  IF stops = {} THEN <<s>>
        ELSE LET i == SetMin(stops)
                 j == SetMax({m \in i..Len(s) : \A x \in i..m : IsStop(s[x])})
             IN  <<SubSeq(s, 1, i - 1)>> \o split_sentences(SubSeq(s, j + 1, Len(s)))

\* The loop over sentences of one over-long paragraph (lines 146-158):
\* out is processed_paragraphs so far, chunk is current_chunk.
RECURSIVE chunk_sentences(_, _, _, _)
chunk_sentences(sentences, chunk, out, max_length) ==
    IF sentences = <<>>
    THEN IF strip(chunk) # <<>> THEN Append(out, strip(chunk)) ELSE out
    ELSE LET sentence == strip(Head(sentences))
         IN  IF sentence = <<>>
             THEN chunk_sentences(Tail(sentences), chunk, out, max_length)
             ELSE IF Len(chunk \o sentence) > max_length /\ chunk # <<>>
                  THEN chunk_sentences(Tail(sentences), sentence,
                                       Append(out, strip(chunk)), max_length)
                  ELSE chunk_sentences(Tail(sentences),
                                       IF chunk # <<>> THEN chunk \o <<" ">> \o sentence
                                                       ELSE sentence,
                                       out, max_length)

\* The loop over the candidate paragraphs (lines 135-160).
RECURSIVE process_paragraphs(_, _, _, _)
process_paragraphs(paragraphs, out, min_length, max_length) ==
    IF paragraphs = <<>> THEN out
    ELSE LET paragraph == strip(Head(paragraphs))
         IN  IF Len(paragraph) < min_length
             THEN process_paragraphs(Tail(paragraphs), out, min_length, max_length)
             ELSE IF Len(paragraph) > max_length
                  THEN process_paragraphs(Tail(paragraphs),
                           chunk_sentences(split_sentences(paragraph), <<>>, out, max_length),
                           min_length, max_length)
                  ELSE process_paragraphs(Tail(paragraphs), Append(out, paragraph),
                                          min_length, max_length)

\* The argument None where a text is expected: a value that is no string.
NoText == <<"None">>

\* PDFProcessor.split_text_into_paragraphs; `not text` holds of None and of
\* the empty string.
split_text_into_paragraphs(text, min_length, max_length) ==
    IF text = NoText \/ text = <<>> \/ strip(text) = <<>> THEN <<>>
    ELSE process_paragraphs(split_blank(sub_spaces(strip(text))), <<>>,
                            min_length, max_length)

\* ----------------------------------------------------------------- vectors
\* A vector (a list of floats in the code) is kept as its length and its
\* leading components, every component behind them being 0:
\* [len |-> 384, head |-> <<1, 2>>] is the list 1, 2, 0, ..., 0 of 384 numbers.
Vec(n, a, b) == [len |-> n, head |-> SubSeq(<<a, b>>, 1, IF n < 2 THEN n ELSE 2)]

\* len(v)
Dim(v) == v.len

\* v[i], for 1 <= i <= len(v)
Component(v, i) == IF i <= Len(v.head) THEN v.head[i] ELSE 0

\* sum(a * b for a, b in zip(u, v)): zip stops at the shorter list, and the
\* products behind either head are 0
RECURSIVE DotRange(_, _, _, _)
DotRange(u, v, lo, hi) ==
    IF lo > hi THEN 0
    ELSE IF lo = hi THEN Component(u, lo) * Component(v, lo)
    ELSE DotRange(u, v, lo, (lo + hi) \div 2) + DotRange(u, v, (lo + hi) \div 2 + 1, hi)
Dot(u, v) ==
    DotRange(u, v, 1, SetMin({Dim(u), Dim(v), Max2(Len(u.head), Len(v.head))}))

\* The similarity dot / (norm_a * norm_b), kept exactly.
Cosine(q, e) == [num |-> Dot(q, e), den2 |-> Dot(q, q) * Dot(e, e)]

\* x > y for two exact similarities (den2 > 0 in both)
SimGreater(x, y) ==
    IF x.num >= 0 /\ y.num >= 0 THEN x.num * x.num * y.den2 > y.num * y.num * x.den2
    ELSE IF x.num >= 0 THEN TRUE
    ELSE IF y.num >= 0 THEN FALSE
    ELSE x.num * x.num * y.den2 < y.num * y.num * x.den2

SimEqual(x, y) == ~SimGreater(x, y) /\ ~SimGreater(y, x)

\* ------------------------------------------------------------ python lists
\* lst[:k]: a negative k counts from the end of the list
SliceTo(lst, k) ==
    IF k >= 0 THEN SubSeq(lst, 1, Min2(k, Len(lst)))
    ELSE SubSeq(lst, 1, Max2(Len(lst) + k, 0))

\* lst[a:a+n] for a, n >= 0 (cursor.skip(a).limit(n); limit(0) is no limit)
SkipLimit(lst, a, n) ==
    IF n = 0 THEN SubSeq(lst, a + 1, Len(lst))
    ELSE SubSeq(lst, a + 1, Min2(a + n, Len(lst)))

\* A descending sort that puts entries of equal key in the reverse of their
\* order (sorted ascending, then reversed).  The code does not do this.
SortDesc_ties_reversed(lst, greater) ==
    LET before(i) == {j \in 1..Len(lst) :
                        \/ greater[j][i]
                        \/ j > i /\ ~greater[i][j]}
        pos == <<>> \o [i \in 1..Len(lst) |-> 1 + Cardinality(before(i))]
    IN  [p \in 1..Len(lst) |-> lst[CHOOSE i \in 1..Len(lst) : pos[i] = p]]

\* list.sort(key = ..., reverse = True): a stable sort, so entries of equal key
\* keep their order.  greater[i][j] tells whether the key of lst[i] is greater
\* than that of lst[j]; entry i lands behind every entry with a greater key
\* and behind the earlier entries with an equal key.
SortDesc(lst, greater) ==
    LET before(i) == {j \in 1..Len(lst) :
                        \/ greater[j][i]
                        \/ j < i /\ ~greater[i][j]}
        pos == <<>> \o [i \in 1..Len(lst) |-> 1 + Cardinality(before(i))]
    IN  [p \in 1..Len(lst) |-> lst[CHOOSE i \in 1..Len(lst) : pos[i] = p]]

\* The concatenation of a sequence of sequences.
RECURSIVE Flatten(_)
Flatten(ss) == IF ss = <<>> THEN <<>> ELSE Head(ss) \o Flatten(Tail(ss))

\* The elements of a finite set of integers in ascending order.
Ascending(S) ==
    IF S = {} THEN <<>>
    ELSE LET lo == SetMin(S)
             In(x) == x \in S
         IN  SelectSeq([i \in 1..(SetMax(S) - lo + 1) |-> lo + i - 1], In)

Range(f) == {f[x] : x \in DOMAIN f}

\* -------------------------------------------------------------- embeddings
\* The embedding backends.  SentenceTransformer.encode and SHA-256 are outside
\* the repository: each is a fixed function of the text, here of the text's
\* length and last letter.  The hash-based embedding is normalised to unit
\* length (embeddings.py:37-38), so it is one of the four unit vectors of the
\* first two axes; the sentence-transformer vectors are not normalised.
HASH == "hash"
MINI_LM == "all-MiniLM-L6-v2"
PARAPHRASE == "paraphrase-MiniLM-L6-v2"
None == "None"

Letter(c) == CASE c = "a" -> 1 [] c = "b" -> 2 [] c = "c" -> 3 [] OTHER -> 0

TextDigest(text) == IF text = <<>> THEN 0 ELSE Len(text) + Letter(text[Len(text)])

\* ai/embeddings.py compute_embedding
compute_embedding(text) ==
    CASE TextDigest(text) % 4 = 0 -> Vec(DIM, 1, 0)
      [] TextDigest(text) % 4 = 1 -> Vec(DIM, 0, 1)
      [] TextDigest(text) % 4 = 2 -> Vec(DIM, -1, 0)
      [] OTHER                    -> Vec(DIM, 0, -1)

\* EmbeddingProcessor._fallback_embedding
fallback_embedding(text) == compute_embedding(text)

\* model.encode(texts)[i]: both models have 384 dimensions
model_encode(model, text) ==
    IF model = MINI_LM
    THEN Vec(DIM, 1 + (TextDigest(text) % 3), 1 + (TextDigest(text) % 2))
    ELSE Vec(DIM, 1 + (TextDigest(text) % 2), 2 - (TextDigest(text) % 3))

\* get_embedding_model: the cached model, else the outcome `loaded` of loading
\* (MINI_LM, PARAPHRASE when the first load fails, None when both fail).
get_embedding_model(cached, available, loaded) ==
    IF cached = None /\ available THEN loaded ELSE cached

\* EmbeddingProcessor.generate_embeddings(texts) under the given outcome of the
\* model: `model` is what get_embedding_model returns, encode_ok tells whether
\* model.encode succeeds.  The result is [vectors, by], by the backend used.
generate_embeddings(texts, available, model, encode_ok) ==
    IF texts = <<>> THEN [vectors |-> <<>>, by |-> None]
    ELSE IF ~available \/ model = None \/ ~encode_ok
    THEN [vectors |-> [i \in 1..Len(texts) |-> fallback_embedding(texts[i])], by |-> HASH]
    ELSE [vectors |-> [i \in 1..Len(texts) |-> model_encode(model, texts[i])], by |-> model]

\* --------------------------------------------------------- document store
\* db.documents is a function from the ids of the stored documents to records.
\* Document ids and user ids are positive integers; ObjectId(x) raises for
\* anything else.  A document is a record that has only the fields that were
\* written to it, as in MongoDB.
Users == {1, 2}
\* the users of the requests in Spec
SpecUsers == {1}

IsObjectId(x) == x > 0

\* doc.get(field, default)
Get(doc, field, default) == IF field \in DOMAIN doc THEN doc[field] ELSE default

\* The filter {"user_id": user_id}: a document without the field does not match.
OwnedBy(doc, user_id) == "user_id" \in DOMAIN doc /\ doc.user_id = user_id

\* {"$set": fields}
SetFields(doc, fields) ==
    [f \in DOMAIN doc \cup DOMAIN fields |-> IF f \in DOMAIN fields THEN fields[f] ELSE doc[f]]

\* update_one with upsert = True: a document that is gone is created again
\* from the fields written.  The code does not do this.
update_one_upsert(store, oid, fields) ==
    IF oid \in DOMAIN store
    THEN [d \in DOMAIN store |-> IF d = oid THEN SetFields(store[d], fields) ELSE store[d]]
    ELSE [d \in DOMAIN store \cup {oid} |->
             IF d = oid THEN SetFields([id |-> oid], fields) ELSE store[d]]

\* update_one({"_id": oid}, {"$set": fields}): no upsert, so nothing is written
\* when no document has this id.
update_one(store, oid, fields) ==
    IF oid \in DOMAIN store
    THEN [d \in DOMAIN store |-> IF d = oid THEN SetFields(store[d], fields) ELSE store[d]]
    ELSE store

\* update_many({"_id": {"$in": oids}}, {"$set": fields})
update_many(store, oids, fields) ==
    [d \in DOMAIN store |-> IF d \in oids THEN SetFields(store[d], fields) ELSE store[d]]

\* insert_one(doc) under the fresh id oid
insert_one(store, oid, doc) ==
    [d \in DOMAIN store \cup {oid} |-> IF d = oid THEN doc ELSE store[d]]

\* delete_many({"_id": {"$in": oids}})
delete_many(store, oids) == [d \in DOMAIN store \ oids |-> store[d]]

\* The path default_storage.save gives the file of an upload: one path for
\* each upload, here named by the id of the document created for it.
file_path(oid) == oid

\* DocumentService.create_document: the document inserted at time now
create_document(store, oid, user_id, content, now) ==
    insert_one(store, oid,
               [id |-> oid, user_id |-> user_id, file_path |-> file_path(oid),
                content |-> content,
                created_at |-> now, is_processed |-> FALSE,
                paragraphs |-> <<>>, paragraph_embeddings |-> <<>>])

\* DocumentService.get_document_by_id: the documents found, none or one
get_document_by_id(store, doc_id) ==
    IF IsObjectId(doc_id) /\ doc_id \in DOMAIN store THEN {store[doc_id]} ELSE {}

\* get_user_documents with the filter {} instead of {"user_id": user_oid}.
\* The code does not do this.
get_user_documents_unfiltered(store, user_id, page, page_size) ==
    LET mine == DOMAIN store
        found == Ascending(mine)
        newer == [i \in DOMAIN found |-> [j \in DOMAIN found |->
                     store[found[i]].created_at > store[found[j]].created_at]]
        sorted == SortDesc(found, newer)
        shown == SkipLimit(sorted, (page - 1) * page_size, page_size)
    IN  [i \in 1..Len(shown) |-> store[shown[i]]]

\* DocumentService.get_user_documents: the page of the user's documents,
\* newest first (the documents of a user all have created_at).
get_user_documents(store, user_id, page, page_size) ==
    LET mine == {d \in DOMAIN store : OwnedBy(store[d], user_id)}
        found == Ascending(mine)
        newer == [i \in DOMAIN found |-> [j \in DOMAIN found |->
                     store[found[i]].created_at > store[found[j]].created_at]]
        sorted == SortDesc(found, newer)
        shown == SkipLimit(sorted, (page - 1) * page_size, page_size)
    IN  [i \in 1..Len(shown) |-> store[shown[i]]]

\* update_document_processing as two updates, of which this is the first: the
\* paragraphs are written and the embeddings are left for the second.  The
\* code does not do this.
update_document_processing_split(store, doc_id, paragraphs, embeddings) ==
    IF ~IsObjectId(doc_id) THEN store
    ELSE update_one(store, doc_id, [is_processed |-> TRUE, paragraphs |-> paragraphs])

\* update_document_processing that appends the two lists to the stored ones
\* ($push) in place of replacing them ($set).  The code does not do this.
update_document_processing_append(store, doc_id, paragraphs, embeddings) ==
    IF ~IsObjectId(doc_id) \/ doc_id \notin DOMAIN store THEN store
    ELSE update_one(store, doc_id,
                    [is_processed |-> TRUE,
                     paragraphs |-> Get(store[doc_id], "paragraphs", <<>>) \o paragraphs,
                     paragraph_embeddings |->
                         Get(store[doc_id], "paragraph_embeddings", <<>>) \o embeddings])

\* DocumentService.update_document_processing
update_document_processing(store, doc_id, paragraphs, embeddings) ==
    IF ~IsObjectId(doc_id) THEN store
    ELSE update_one(store, doc_id,
                    [is_processed |-> TRUE, paragraphs |-> paragraphs,
                     paragraph_embeddings |-> embeddings])

\* DocumentService.delete_document with the filter {"_id": doc_oid} only.
\* The code does not do this.
delete_document_of_anyone(store, doc_id, user_id) ==
    IF ~IsObjectId(doc_id) \/ ~IsObjectId(user_id) THEN [store |-> store, deleted |-> FALSE]
    ELSE IF doc_id \in DOMAIN store
    THEN [store |-> delete_many(store, {doc_id}), deleted |-> TRUE]
    ELSE [store |-> store, deleted |-> FALSE]

\* DocumentService.delete_document: [store, deleted]
delete_document(store, doc_id, user_id) ==
    IF ~IsObjectId(doc_id) \/ ~IsObjectId(user_id) THEN [store |-> store, deleted |-> FALSE]
    ELSE IF doc_id \in DOMAIN store /\ OwnedBy(store[doc_id], user_id)
    THEN [store |-> delete_many(store, {doc_id}), deleted |-> TRUE]
    ELSE [store |-> store, deleted |-> FALSE]

\* The delete_document view (library/views.py:305-331) on the documents and
\* the files: [store, files, status].  After a successful delete the view
\* looks the document up again and removes the file of the document found.
delete_document_view(store, files, doc_id, user_id) ==
    LET r == delete_document(store, doc_id, user_id)
        found == get_document_by_id(r.store, doc_id)
        paths == {d.file_path : d \in {x \in found : "file_path" \in DOMAIN x}}
    IN  IF r.deleted
        THEN [store |-> r.store, files |-> files \ paths, status |-> 200]
        ELSE [store |-> r.store, files |-> files, status |-> 404]

\* ------------------------------------------------------------------ search
\* find_processed without "is_processed": True in the filter.  The code does
\* not do this.
find_processed_any(store, doc_oids) ==
    Ascending({d \in DOMAIN store :
                  /\ d \in doc_oids
                  /\ "paragraph_embeddings" \in DOMAIN store[d]
                  /\ store[d].paragraph_embeddings # <<>>})

\* The documents db.documents.find returns in search_similar_paragraphs
\* (models.py:276-283), in the order of their ids.
find_processed(store, doc_oids) ==
    Ascending({d \in DOMAIN store :
                  /\ d \in doc_oids
                  /\ Get(store[d], "is_processed", FALSE) = TRUE
                  /\ "paragraph_embeddings" \in DOMAIN store[d]
                  /\ store[d].paragraph_embeddings # <<>>})

\* score_document without the comparison of the two lengths (line 293): the
\* dot product and the norms are taken as zip takes them.  The code does not
\* do this.
score_document_unchecked(doc, query_embedding) ==
    LET paragraphs == Get(doc, "paragraphs", <<>>)
        embeddings == Get(doc, "paragraph_embeddings", <<>>)
        n == Min2(Len(paragraphs), Len(embeddings))
        scored == {i \in 1..n :
                      /\ Dot(query_embedding, query_embedding) # 0
                      /\ Dot(embeddings[i], embeddings[i]) # 0}
        order == Ascending(scored)
    IN  [j \in 1..Len(order) |->
            [document_id |-> doc.id,
             paragraph_index |-> order[j] - 1,
             paragraph |-> paragraphs[order[j]],
             similarity |-> Cosine(query_embedding, embeddings[order[j]])]]

\* score_document that gives a pair with a zero norm the similarity 0 in
\* place of leaving it out (line 301).  The code does not do this.
score_document_zero_scored(doc, query_embedding) ==
    LET paragraphs == Get(doc, "paragraphs", <<>>)
        embeddings == Get(doc, "paragraph_embeddings", <<>>)
        n == Min2(Len(paragraphs), Len(embeddings))
        scored == {i \in 1..n : Dim(embeddings[i]) = Dim(query_embedding)}
        order == Ascending(scored)
        similarity(e) ==
            IF Dot(query_embedding, query_embedding) = 0 \/ Dot(e, e) = 0
            THEN [num |-> 0, den2 |-> 1]
            ELSE Cosine(query_embedding, e)
    IN  [j \in 1..Len(order) |->
            [document_id |-> doc.id,
             paragraph_index |-> order[j] - 1,
             paragraph |-> paragraphs[order[j]],
             similarity |-> similarity(embeddings[order[j]])]]

\* The entries one document adds to results (models.py:285-312).
score_document(doc, query_embedding) ==
    LET paragraphs == Get(doc, "paragraphs", <<>>)
        embeddings == Get(doc, "paragraph_embeddings", <<>>)
        n == Min2(Len(paragraphs), Len(embeddings))
        scored == {i \in 1..n :
                      /\ Dim(embeddings[i]) = Dim(query_embedding)
                      /\ Dot(query_embedding, query_embedding) # 0
                      /\ Dot(embeddings[i], embeddings[i]) # 0}
        order == Ascending(scored)
    IN  [j \in 1..Len(order) |->
            [document_id |-> doc.id,
             paragraph_index |-> order[j] - 1,
             paragraph |-> paragraphs[order[j]],
             similarity |-> Cosine(query_embedding, embeddings[order[j]])]]

MoreSimilar(x, y) == SimGreater(x.similarity, y.similarity)

\* the comparison of the keys of results.sort (models.py:315)
by_similarity(results) ==
    [i \in DOMAIN results |-> [j \in DOMAIN results |-> MoreSimilar(results[i], results[j])]]

\* The scored candidates before sorting.
scored_paragraphs(store, query_embedding, user_doc_ids) ==
    LET doc_oids == {d \in Range(user_doc_ids) : IsObjectId(d)}
        found == find_processed(store, doc_oids)
    IN  Flatten([i \in 1..Len(found) |-> score_document(store[found[i]], query_embedding)])

\* search_similar_paragraphs without results.sort.  The code does not do this.
search_similar_paragraphs_unsorted(store, query_embedding, user_doc_ids, top_k) ==
    SliceTo(scored_paragraphs(store, query_embedding, user_doc_ids), top_k)

\* EmbeddingService.search_similar_paragraphs
search_similar_paragraphs(store, query_embedding, user_doc_ids, top_k) ==
    LET results == scored_paragraphs(store, query_embedding, user_doc_ids)
    IN  SliceTo(SortDesc(results, by_similarity(results)), top_k)

\* search_documents, lines 789-790: the ids of the user's processed documents
\* among the first page of 100
search_scope(store, user_id) ==
    LET user_docs == get_user_documents(store, user_id, SEARCH_PAGE, SEARCH_PAGE_SIZE)
        processed == {i \in 1..Len(user_docs) : Get(user_docs[i], "is_processed", FALSE)}
        order == Ascending(processed)
    IN  [j \in 1..Len(order) |-> user_docs[order[j]].id]

\* SemanticSearchService.search_documents as one call, under the given outcome
\* of the embedding model: [result, query_embedding, by].  ObjectId(user_id)
\* raising is caught with every other exception and gives the empty list.
search_documents_call(store, query, user_id, top_k, avail, model, encode_ok) ==
    LET scope == search_scope(store, user_id)
        embedded == generate_embeddings(<<query>>, avail, model, encode_ok)
    IN  IF ~IsObjectId(user_id) \/ scope = <<>>
        THEN [result |-> <<>>, query_embedding |-> Vec(0, 0, 0), by |-> None]
        ELSE [result |-> search_similar_paragraphs(store, embedded.vectors[1], scope, top_k),
              query_embedding |-> embedded.vectors[1], by |-> embedded.by]

\* ------------------------------------------------------- profile embeddings
\* db.profiles_embeddings is the sequence of its rows in insertion order.
\* ai/embeddings.py upsert_profile_embedding: update_one with upsert = True
upsert_profile_embedding(rows, user_id, text) ==
    IF \E i \in 1..Len(rows) : rows[i].user_id = user_id
    THEN [i \in 1..Len(rows) |->
             IF rows[i].user_id = user_id
             THEN SetFields(rows[i], [embedding |-> compute_embedding(text)])
             ELSE rows[i]]
    ELSE Append(rows, [user_id |-> user_id, embedding |-> compute_embedding(text)])

HigherScore(x, y) == x.score > y.score

\* the comparison of the keys of scored.sort (embeddings.py:108)
by_score(scored) ==
    [i \in DOMAIN scored |-> [j \in DOMAIN scored |-> HigherScore(scored[i], scored[j])]]

\* vector_search, lines 98-108: the rows that are scored, before sorting
scored_profiles(rows, qv) ==
    LET kept == Ascending({i \in 1..Len(rows) :
                              Dim(Get(rows[i], "embedding", Vec(0, 0, 0))) = DIM})
    IN  [j \in 1..Len(kept) |->
            [user_id |-> rows[kept[j]].user_id,
             score |-> Dot(qv, rows[kept[j]].embedding)]]

\* vector_search, lines 98-109: the cosine similarity computed in Python
vector_search_fallback(rows, qv, k) ==
    LET scored == scored_profiles(rows, qv)
    IN  SliceTo(SortDesc(scored, by_score(scored)), k)

\* What the $vectorSearch stage of Atlas does is outside the repository: the
\* aggregate raises (no Atlas, no index, limit < 1), returns nothing, or
\* returns the limit nearest rows with Atlas's own score.
AtlasOutcomes == {"error", "empty", "results"}
ATLAS_SCORE == "vectorSearchScore"

atlas_vector_search(rows, qv, k) ==
    LET scored == scored_profiles(rows, qv)
        nearest == SliceTo(SortDesc(scored, by_score(scored)), Max2(k, 0))
    IN  [i \in 1..Len(nearest) |-> [user_id |-> nearest[i].user_id, score |-> ATLAS_SCORE]]

\* vector_search that returns what the aggregate returned, also when that is
\* nothing.  The code does not do this.
vector_search_no_fallback(rows, query_text, k, atlas, read_ok) ==
    LET qv == compute_embedding(query_text)
        results == IF atlas = "results" /\ k >= 1 THEN atlas_vector_search(rows, qv, k)
                   ELSE <<>>
    IN  IF atlas # "error"
        THEN [result |-> results, path |-> "atlas", raised |-> FALSE]
        ELSE IF read_ok
        THEN [result |-> vector_search_fallback(rows, qv, k), path |-> "python",
              raised |-> FALSE]
        ELSE [result |-> <<>>, path |-> "python", raised |-> TRUE]

\* ai/embeddings.py vector_search under the given outcome of the aggregate:
\* [result, path, raised].  The find of the fallback (line 99) is outside the
\* try: when it raises (read_ok false), so does vector_search.
vector_search(rows, query_text, k, atlas, read_ok) ==
    LET qv == compute_embedding(query_text)
        results == IF atlas = "results" /\ k >= 1 THEN atlas_vector_search(rows, qv, k)
                   ELSE <<>>
    IN  IF atlas # "error" /\ results # <<>>
        THEN [result |-> results, path |-> "atlas", raised |-> FALSE]
        ELSE IF read_ok
        THEN [result |-> vector_search_fallback(rows, qv, k), path |-> "python",
              raised |-> FALSE]
        ELSE [result |-> <<>>, path |-> "python", raised |-> TRUE]

\* --------------------------------------------------------------- uploads
DigitChar == <<"0", "1", "2", "3", "4", "5", "6", "7", "8", "9">>

\* str(n) for n >= 0
RECURSIVE Decimal(_)
Decimal(n) ==
    IF n < 10 THEN <<DigitChar[n + 1]>>
    ELSE Decimal(n \div 10) \o <<DigitChar[(n % 10) + 1]>>

\* sep.join(parts)
RECURSIVE Join(_, _)
Join(parts, sep) ==
    IF parts = <<>> THEN <<>>
    ELSE IF Len(parts) = 1 THEN parts[1]
    ELSE parts[1] \o sep \o Join(Tail(parts), sep)

\* PDFProcessor.extract_text_from_pdf on a file given as its page texts:
\* "Page n:\n" + text for every page with text, joined by blank lines.
extract_text_from_pdf(pages) ==
    LET shown == Ascending({i \in 1..Len(pages) : strip(pages[i]) # <<>>})
    IN  Join([j \in 1..Len(shown) |->
                 <<"P", "a", "g", "e", " ">> \o Decimal(shown[j]) \o <<":", "\n">>
                 \o pages[shown[j]]],
             <<"\n", "\n">>)

\* The uploaded files: one page that gives one paragraph of exactly
\* MIN_LENGTH characters, one that gives a longer paragraph, one too short.
FileA == <<Rep("a", MIN_LENGTH - 8)>>
FileB == <<Rep("b", MIN_LENGTH - 7)>>
FileShort == <<Rep("a", 10)>>
Files == {FileA, FileB, FileShort}
\* the files uploaded in Spec
Uploads == {FileA, FileShort}

\* The content an admin types into document_edit / document_create.
AdminTexts == {<<>>, Rep("c", MIN_LENGTH)}

\* The query texts.
Queries == {<<"b">>}

\* Extraction and segmentation of the texts above, computed once.
Extracted == [f \in Files |-> extract_text_from_pdf(f)]
Contents == Range(Extracted) \cup AdminTexts \cup {<<>>}
Segmented == [c \in Contents |-> split_text_into_paragraphs(c, MIN_LENGTH, MAX_LENGTH)]

\* ------------------------------------------------------------------ state
VARIABLES
    docs,             \* db.documents
    next_id,          \* the next ObjectId, also the clock of created_at and
                      \* the next uuid4
    available,        \* SENTENCE_TRANSFORMERS_AVAILABLE
    embedding_model,  \* _embedding_model
    tasks,            \* the requests started so far, each with its position
    requests,         \* number of requests so far
    written,          \* history: the calls of update_document_processing
    deleted,          \* history: ids of the documents deleted so far
    created_by,       \* history: the owner each document was created with
    embedded_by,      \* history: the backend of each document's embeddings
    profiles,         \* db.profiles_embeddings, in insertion order
    media,            \* the paths of the files under MEDIA_ROOT
    community_posts,  \* db.community_posts
    study_profiles,   \* db.study_profiles
    call              \* the last direct call and what it returned

vars == <<docs, next_id, available, embedding_model, tasks, requests,
          written, deleted, created_by, embedded_by, profiles, media,
          community_posts, study_profiles, call>>

NoCall == [op |-> "none"]
NoDocs == [d \in {} |-> {}]

\* A request: its position (op, pc), its locals, what it returned (result,
\* success, raised) and history fields: storage_failed tells that a read or
\* write of the store raised in it, left is what the document looked like
\* when the run began (before) and when it ended (left), calls are the
\* functions it has called.
Task(op, pc, user, doc) ==
    [op |-> op, pc |-> pc, user |-> user, doc |-> doc, file |-> <<>>,
     paragraphs |-> <<>>, embeddings |-> <<>>, by |-> None,
     query |-> <<>>, k |-> 0, scope |-> <<>>, result |-> <<>>,
     success |-> FALSE, gone |-> {}, compared |-> {},
     storage_failed |-> FALSE, raised |-> FALSE, before |-> {}, left |-> {},
     calls |-> {}]

\* process_uploaded_document, lines 840-842, and process_document_embeddings,
\* lines 229-231: `except Exception` logs whatever was raised and returns
\* False.  storage tells whether it was the store that raised.
process_except(storage) ==
    [pc |-> "done", success |-> FALSE, raised |-> FALSE, storage_failed |-> storage,
     file |-> <<>>, paragraphs |-> <<>>, embeddings |-> <<>>]

\* search_documents, lines 805-807: `except Exception` logs whatever was
\* raised and returns the empty list.
search_except(storage) ==
    [pc |-> "done", result |-> <<>>, raised |-> FALSE, storage_failed |-> storage]

\* What a run leaves of its document: the flag and the sizes of the two lists.
Left(store, doc_id) ==
    {[is_processed |-> Get(d, "is_processed", FALSE),
      paragraphs |-> Len(Get(d, "paragraphs", <<>>)),
      embeddings |-> Len(Get(d, "paragraph_embeddings", <<>>))] :
        d \in get_document_by_id(store, doc_id)}

\* tasks with the fields of task t replaced
With(t, fields) == [tasks EXCEPT ![t] = SetFields(tasks[t], fields)]

At(t, op, pc) == t \in DOMAIN tasks /\ tasks[t].op = op /\ tasks[t].pc = pc

Init ==
    /\ docs = NoDocs
    /\ next_id = 1
    /\ available = TRUE
    /\ embedding_model = None
    /\ tasks = <<>>
    /\ requests = 0
    /\ written = {}
    /\ deleted = {}
    /\ created_by = NoDocs
    /\ embedded_by = NoDocs
    /\ profiles = <<>>
    /\ call = NoCall
    /\ media = {}
    /\ community_posts = NoDocs
    /\ study_profiles = <<>>

\* ---------------------------------------------------------------- actions
\* upload_document (library/views.py:119-128): the document record is created
\* with empty content; processing follows in the same request.
upload_document(user, file) ==
    /\ requests < MaxRequests
    /\ docs' = create_document(docs, next_id, user, <<>>, next_id)
    /\ created_by' = insert_one(created_by, next_id, user)
    /\ next_id' = next_id + 1
    /\ tasks' = Append(tasks, SetFields(Task("upload", "extract", user, next_id),
                                        [file |-> file]))
    /\ media' = media \cup {file_path(next_id)}
    /\ requests' = requests + 1
    /\ UNCHANGED <<available, embedding_model, written, deleted, embedded_by, profiles, call,
                   community_posts, study_profiles>>

\* The outcomes of the first part of process_uploaded_document.
ExtractOutcomes == {"ok", "extract_raises", "write_raises"}

\* process_uploaded_document, lines 816-833: the extracted text is written to
\* the document; when the extraction or the write raises, the request ends
\* with False.
process_extract(t, outcome) ==
    /\ At(t, "upload", "extract")
    /\ IF outcome = "ok"
       THEN /\ docs' = update_one(docs, tasks[t].doc, [content |-> Extracted[tasks[t].file]])
            /\ tasks' = With(t, [pc |-> "embed", file |-> <<>>])
       ELSE /\ docs' = docs
            /\ tasks' = With(t, SetFields(process_except(outcome = "write_raises"),
                                          [left |-> Left(docs, tasks[t].doc)]))
    /\ UNCHANGED <<next_id, available, embedding_model, requests, written,
                   deleted, created_by, embedded_by, profiles, call,
                   media, community_posts, study_profiles>>

\* A direct call of EmbeddingProcessor.process_document_embeddings(doc_id) for
\* a stored document (the reindex of the document).
reindex(doc_id) ==
    /\ requests < MaxRequests
    /\ doc_id \in DOMAIN docs
    /\ tasks' = Append(tasks, SetFields(Task("reindex", "embed", 0, doc_id),
                                        [before |-> Left(docs, doc_id)]))
    /\ requests' = requests + 1
    /\ UNCHANGED <<docs, next_id, available, embedding_model, written, deleted,
                   created_by, embedded_by, profiles, call,
                   media, community_posts, study_profiles>>

\* process_document_embeddings, lines 211-222: read the document, segment its
\* content and embed the paragraphs.  loaded and encode_ok are the outcomes of
\* loading the model and of model.encode in this call, read_ok that of
\* find_one.
process_embed(t, loaded, encode_ok, read_ok) ==
    /\ \/ At(t, "upload", "embed")
       \/ At(t, "reindex", "embed")
    /\ LET found == get_document_by_id(docs, tasks[t].doc)
           doc == CHOOSE d \in found : TRUE
           paragraphs == Segmented[doc.content]
           model == get_embedding_model(embedding_model, available, loaded)
           embeddings == generate_embeddings(paragraphs, available, model, encode_ok)
       IN  IF ~read_ok
           THEN /\ tasks' = With(t, SetFields(process_except(TRUE),
                                              [left |-> Left(docs, tasks[t].doc)]))
                /\ embedding_model' = embedding_model
           ELSE IF found = {} \/ Get(doc, "content", <<>>) = <<>> \/ paragraphs = <<>>
           THEN /\ tasks' = With(t, [pc |-> "done", success |-> FALSE,
                                     left |-> Left(docs, tasks[t].doc)])
                /\ embedding_model' = embedding_model
           ELSE /\ tasks' = With(t, [pc |-> "write", paragraphs |-> paragraphs,
                                     embeddings |-> embeddings.vectors,
                                     by |-> embeddings.by])
                /\ embedding_model' = IF available THEN model ELSE embedding_model
    /\ UNCHANGED <<docs, next_id, available, requests, written, deleted,
                   created_by, embedded_by, profiles, call,
                   media, community_posts, study_profiles>>

\* process_document_embeddings, lines 225-227: the paragraph set is written
\* and the run returns True; when the write raises, nothing is written and
\* the run returns False.
process_write(t, write_ok) ==
    /\ \/ At(t, "upload", "write")
       \/ At(t, "reindex", "write")
    /\ IF write_ok
       THEN /\ docs' = update_document_processing(docs, tasks[t].doc, tasks[t].paragraphs,
                                                  tasks[t].embeddings)
            /\ written' = written \cup {[doc |-> tasks[t].doc,
                                         paragraphs |-> tasks[t].paragraphs,
                                         embeddings |-> tasks[t].embeddings]}
            /\ embedded_by' = IF tasks[t].doc \in DOMAIN docs'
                              THEN insert_one(embedded_by, tasks[t].doc, tasks[t].by)
                              ELSE embedded_by
            /\ tasks' = With(t, [pc |-> "done", success |-> TRUE, gone |-> deleted,
                                  paragraphs |-> <<>>, embeddings |-> <<>>,
                                  left |-> Left(docs', tasks[t].doc)])
       ELSE /\ docs' = docs
            /\ written' = written
            /\ embedded_by' = embedded_by
            /\ tasks' = With(t, SetFields(process_except(TRUE),
                                          [left |-> Left(docs, tasks[t].doc)]))
    /\ UNCHANGED <<next_id, available, embedding_model, requests, deleted,
                   created_by, profiles, call,
                   media, community_posts, study_profiles>>

\* search_documents without the return of lines 792-793: the query is
\* embedded and searched for whatever the scope.  The code does not do this.
search_documents_eager(user, query, top_k, read_ok) ==
    /\ requests < MaxRequests
    /\ LET scope == search_scope(docs, user)
           started == SetFields(Task("search", "find", user, 0),
                                [query |-> query, k |-> top_k,
                                 calls |-> {"get_user_documents"}])
       IN  tasks' = Append(tasks,
                IF ~read_ok THEN SetFields(started, search_except(TRUE))
                ELSE SetFields(started, [scope |-> scope]))
    /\ requests' = requests + 1
    /\ UNCHANGED <<docs, next_id, available, embedding_model, written, deleted,
                   created_by, embedded_by, profiles, call,
                   media, community_posts, study_profiles>>

\* search_documents, lines 789-793: resolve the scope; an empty scope ends the
\* request with an empty list, and so does a read of the store that raises.
search_documents(user, query, top_k, read_ok) ==
    /\ requests < MaxRequests
    /\ LET scope == search_scope(docs, user)
           started == SetFields(Task("search", "find", user, 0),
                                [query |-> query, k |-> top_k,
                                 calls |-> {"get_user_documents"}])
       IN  tasks' = Append(tasks,
                IF ~read_ok THEN SetFields(started, search_except(TRUE))
                ELSE IF scope = <<>> THEN SetFields(started, [pc |-> "done"])
                ELSE SetFields(started, [scope |-> scope]))
    /\ requests' = requests + 1
    /\ UNCHANGED <<docs, next_id, available, embedding_model, written, deleted,
                   created_by, embedded_by, profiles, call,
                   media, community_posts, study_profiles>>

\* search_documents, lines 796-803: embed the query and search the scope; a
\* read of the store that raises in search_similar_paragraphs ends the request
\* with an empty list.
search_find(t, loaded, encode_ok, read_ok) ==
    /\ At(t, "search", "find")
    /\ LET model == get_embedding_model(embedding_model, available, loaded)
           embedded == generate_embeddings(<<tasks[t].query>>, available, model, encode_ok)
           called == tasks[t].calls \cup {"generate_embeddings", "search_similar_paragraphs"}
       IN  /\ tasks' =
                IF read_ok
                THEN With(t, [pc |-> "done",
                              by |-> embedded.by,
                              embeddings |-> embedded.vectors,
                              gone |-> deleted,
                              calls |-> called,
                              compared |-> {embedded_by[d] :
                                  d \in Range(find_processed(docs, Range(tasks[t].scope)))},
                              result |-> search_similar_paragraphs(
                                  docs, embedded.vectors[1], tasks[t].scope, tasks[t].k)])
                ELSE With(t, SetFields(search_except(TRUE),
                                       [by |-> embedded.by, calls |-> called]))
           /\ embedding_model' = IF available THEN model ELSE embedding_model
    /\ UNCHANGED <<docs, next_id, available, requests, written, deleted,
                   created_by, embedded_by, profiles, call,
                   media, community_posts, study_profiles>>

\* The delete_document view (library/views.py:312): DocumentService.delete_document
\* for a document id handed out before, by any user.
owner_delete(doc_id, user) ==
    /\ requests < MaxRequests
    /\ doc_id \in 1..(next_id - 1)
    /\ LET r == delete_document_view(docs, media, doc_id, user)
       IN  /\ docs' = r.store
           /\ media' = r.files
           /\ deleted' = IF r.status = 200 THEN deleted \cup {doc_id} ELSE deleted
    /\ requests' = requests + 1
    /\ UNCHANGED <<next_id, available, embedding_model, tasks, written,
                   created_by, embedded_by, profiles, call,
                   community_posts, study_profiles>>

\* LibraryAdminViews.document_create (admin.py:277-296): the inserted document
\* has no user_id, no created_at and no paragraph fields.
admin_document_create(content) ==
    /\ requests < MaxRequests
    /\ docs' = insert_one(docs, next_id,
                          [id |-> next_id, content |-> content, is_processed |-> FALSE])
    /\ created_by' = insert_one(created_by, next_id, 0)
    /\ next_id' = next_id + 1
    /\ requests' = requests + 1
    /\ UNCHANGED <<available, embedding_model, tasks, written, deleted,
                   embedded_by, profiles, call,
                   media, community_posts, study_profiles>>

\* LibraryAdminViews.document_edit (admin.py:311-398): the posted content
\* replaces the document's content; nothing else of the document is touched.
admin_document_edit(doc_id, content) ==
    /\ requests < MaxRequests
    /\ doc_id \in DOMAIN docs
    /\ docs' = update_one(docs, doc_id, [content |-> content])
    /\ requests' = requests + 1
    /\ UNCHANGED <<next_id, available, embedding_model, tasks, written, deleted,
                   created_by, embedded_by, profiles, call,
                   media, community_posts, study_profiles>>

\* LibraryAdminViews.document_detail, action mark_processed (admin.py:428-431)
admin_mark_processed(doc_id) ==
    /\ requests < MaxRequests
    /\ doc_id \in DOMAIN docs
    /\ docs' = update_one(docs, doc_id, [is_processed |-> TRUE])
    /\ requests' = requests + 1
    /\ UNCHANGED <<next_id, available, embedding_model, tasks, written, deleted,
                   created_by, embedded_by, profiles, call,
                   media, community_posts, study_profiles>>

\* LibraryAdminViews.document_detail, action delete (admin.py:424-427)
admin_delete(doc_id) ==
    /\ requests < MaxRequests
    /\ doc_id \in DOMAIN docs
    /\ docs' = delete_many(docs, {doc_id})
    /\ deleted' = deleted \cup {doc_id}
    /\ requests' = requests + 1
    /\ UNCHANGED <<next_id, available, embedding_model, tasks, written,
                   created_by, embedded_by, profiles, call,
                   media, community_posts, study_profiles>>

\* LibraryAdminViews.documents_list, bulk action mark_processed_selected
\* (admin.py:66-69)
admin_mark_processed_selected(ids) ==
    /\ requests < MaxRequests
    /\ ids # {}
    /\ docs' = update_many(docs, ids, [is_processed |-> TRUE])
    /\ requests' = requests + 1
    /\ UNCHANGED <<next_id, available, embedding_model, tasks, written, deleted,
                   created_by, embedded_by, profiles, call,
                   media, community_posts, study_profiles>>

\* LibraryAdminViews.documents_list, bulk action delete_selected (admin.py:62-65)
admin_delete_selected(ids) ==
    /\ requests < MaxRequests
    /\ ids # {}
    /\ docs' = delete_many(docs, ids)
    /\ deleted' = deleted \cup (ids \cap DOMAIN docs)
    /\ requests' = requests + 1
    /\ UNCHANGED <<next_id, available, embedding_model, tasks, written,
                   created_by, embedded_by, profiles, call,
                   media, community_posts, study_profiles>>

\* The outcomes of loading the model: all of them, and those drawn in Spec.
Loads == {MINI_LM, PARAPHRASE, None}
SpecLoads == {MINI_LM, None}

Next ==
    \/ \E user \in SpecUsers, file \in Uploads : upload_document(user, file)
    \/ \E t \in DOMAIN tasks, outcome \in {"ok", "extract_raises"} : process_extract(t, outcome)
    \/ \E doc_id \in DOMAIN docs : reindex(doc_id)
    \/ \E t \in DOMAIN tasks, loaded \in SpecLoads, ok \in BOOLEAN :
          process_embed(t, loaded, ok, TRUE)
    \/ \E t \in DOMAIN tasks : process_write(t, TRUE)
    \/ \E user \in SpecUsers, query \in Queries : search_documents(user, query, SEARCH_TOP_K, TRUE)
    \/ \E t \in DOMAIN tasks, loaded \in SpecLoads, ok \in BOOLEAN : search_find(t, loaded, ok, TRUE)
    \/ \E doc_id \in 1..MaxRequests, user \in SpecUsers : owner_delete(doc_id, user)
    \/ \E content \in AdminTexts : admin_document_create(content)
    \/ \E doc_id \in DOMAIN docs, content \in AdminTexts : admin_document_edit(doc_id, content)
    \/ \E doc_id \in DOMAIN docs : admin_mark_processed(doc_id)
    \/ \E doc_id \in DOMAIN docs : admin_delete(doc_id)
    \/ \E ids \in SUBSET DOMAIN docs : admin_mark_processed_selected(ids)
    \/ \E ids \in SUBSET DOMAIN docs : admin_delete_selected(ids)

Spec == Init /\ [][Next]_vars

\* The same requests over a store whose reads and writes may raise, at most
\* MaxFaultRequests of them.
Few == requests < MaxFaultRequests

NextFaults ==
    \/ \E user \in SpecUsers, file \in Uploads : Few /\ upload_document(user, file)
    \/ \E t \in DOMAIN tasks, outcome \in ExtractOutcomes : process_extract(t, outcome)
    \/ \E doc_id \in DOMAIN docs : Few /\ reindex(doc_id)
    \/ \E t \in DOMAIN tasks, loaded \in SpecLoads, ok \in BOOLEAN, read_ok \in BOOLEAN :
          process_embed(t, loaded, ok, read_ok)
    \/ \E t \in DOMAIN tasks, write_ok \in BOOLEAN : process_write(t, write_ok)
    \/ \E user \in SpecUsers, query \in Queries, read_ok \in BOOLEAN :
          Few /\ search_documents(user, query, SEARCH_TOP_K, read_ok)
    \/ \E t \in DOMAIN tasks, loaded \in SpecLoads, ok \in BOOLEAN, read_ok \in BOOLEAN :
          search_find(t, loaded, ok, read_ok)
    \/ \E doc_id \in 1..MaxFaultRequests, user \in SpecUsers : Few /\ owner_delete(doc_id, user)
    \/ \E content \in AdminTexts : Few /\ admin_document_create(content)
    \/ \E doc_id \in DOMAIN docs, content \in AdminTexts :
          Few /\ admin_document_edit(doc_id, content)
    \/ \E doc_id \in DOMAIN docs : Few /\ admin_mark_processed(doc_id)
    \/ \E doc_id \in DOMAIN docs : Few /\ admin_delete(doc_id)
    \/ \E ids \in SUBSET DOMAIN docs : Few /\ admin_mark_processed_selected(ids)
    \/ \E ids \in SUBSET DOMAIN docs : Few /\ admin_delete_selected(ids)

SpecFaults == Init /\ [][NextFaults]_vars

\* ------------------------------------------------- properties of the store
Searched(t) == At(t, "search", "done")
Indexed(t) == (At(t, "upload", "done") \/ At(t, "reindex", "done")) /\ tasks[t].success

Paragraphs(d) == Get(docs[d], "paragraphs", <<>>)
Embeddings(d) == Get(docs[d], "paragraph_embeddings", <<>>)

\* The result entries of search t that belong to document d.
EntriesOf(t, d) ==
    {tasks[t].result[i] : i \in {j \in 1..Len(tasks[t].result) :
                                    tasks[t].result[j].document_id = d}}

\* C2 (upsert atomicity): the paragraphs and embeddings a document holds are
\* the two lists of one call of update_document_processing (or both still
\* empty), and the entries a search returns for a document are all scored
\* from the two lists of one such call: never the paragraphs of one call with
\* the embeddings of another.
UpsertAtomicity ==
    /\ \A d \in DOMAIN docs :
          \/ Paragraphs(d) = <<>> /\ Embeddings(d) = <<>>
          \/ [doc |-> d, paragraphs |-> Paragraphs(d), embeddings |-> Embeddings(d)]
                \in written
    /\ \A t \in DOMAIN tasks : Searched(t) =>
          \A d \in {tasks[t].result[i].document_id : i \in 1..Len(tasks[t].result)} :
             \E w \in written :
                /\ w.doc = d
                /\ EntriesOf(t, d) \subseteq
                      Range(score_document([id |-> d, paragraphs |-> w.paragraphs,
                                            paragraph_embeddings |-> w.embeddings],
                                           tasks[t].embeddings[1]))

\* C2 witness: a search has returned paragraphs of a document whose paragraph
\* set was replaced by a second, different upsert.
UpsertAtomicityWitness ==
    \E t \in DOMAIN tasks :
       /\ Searched(t)
       /\ \E d \in DOMAIN docs :
             /\ EntriesOf(t, d) # {}
             /\ Cardinality({w \in written : w.doc = d}) >= 2

\* C3 (processed invariant), as claimed: every stored document with
\* is_processed = true has a non-empty paragraphs list and as many embeddings.
ProcessedInvariant ==
    \A d \in DOMAIN docs :
       Get(docs[d], "is_processed", FALSE) =>
          /\ Paragraphs(d) # <<>>
          /\ Len(Paragraphs(d)) = Len(Embeddings(d))

\* The embeddings some backend gives for the paragraphs.
EmbeddedFrom(paragraphs, embeddings) ==
    \E model \in {MINI_LM, PARAPHRASE, None} :
       embeddings = generate_embeddings(paragraphs, TRUE, model, TRUE).vectors

\* C4 (no stale embeddings), as claimed: the stored paragraphs and embeddings
\* of a document are empty or the ones derived from its current content.
NoStaleEmbeddings ==
    \A d \in DOMAIN docs :
       \/ Paragraphs(d) = <<>> /\ Embeddings(d) = <<>>
       \/ /\ Paragraphs(d) = Segmented[Get(docs[d], "content", <<>>)]
          /\ EmbeddedFrom(Paragraphs(d), Embeddings(d))

\* C8 (embedding-space consistency), as claimed: the query vector of a search
\* comes from the backend of every stored embedding it is compared with.
EmbeddingSpaceConsistency ==
    \A t \in DOMAIN tasks : Searched(t) => tasks[t].compared \subseteq {tasks[t].by}

\* C9 (deletion leaves no orphans): a deleted document is not in the store,
\* whatever upload or reindex of it finishes afterwards, and a search that
\* reads the store after the deletion returns none of its paragraphs.
DeletionLeavesNoOrphans ==
    /\ \A d \in deleted : d \notin DOMAIN docs
    /\ \A t \in DOMAIN tasks : Searched(t) =>
          \A i \in 1..Len(tasks[t].result) :
             tasks[t].result[i].document_id \notin tasks[t].gone

\* C9 witness: an upload or reindex has written its paragraph set after the
\* document was deleted.
DeletionWitness ==
    \E t \in DOMAIN tasks : Indexed(t) /\ tasks[t].doc \in tasks[t].gone

\* This step is run t reading its document, segmenting and embedding it.
Embeds(t) == tasks[t].pc = "embed" /\ tasks'[t].pc = "write"

\* This step is the write of run t, and the run returns True.
Writes(t) == tasks[t].pc = "write" /\ tasks'[t].pc = "done" /\ tasks'[t].success

\* The two lists document d holds, or would hold when it is not stored.
Lists(d) ==
    IF d \in DOMAIN docs THEN <<Paragraphs(d), Embeddings(d)>> ELSE <<<<>>, <<>>>>

\* C12 (full replacement on reindex): a run of process_document_embeddings
\* derives its paragraphs from the content it reads, as the segmenter's output
\* in that order, with one embedding per paragraph at the same index; its
\* write leaves the document with exactly these two lists, nothing of the
\* previous set; and every step that changes the paragraphs or the embeddings
\* of a document, or creates a document with some, is such a write.  (The
\* content is the one the run read: an edit between the read and the write is
\* the subject of C4.)
FullReplacement ==
    [][/\ \A t \in DOMAIN tasks :
            Embeds(t) =>
               /\ tasks'[t].paragraphs = Segmented[docs[tasks[t].doc].content]
               /\ Len(tasks'[t].embeddings) = Len(tasks'[t].paragraphs)
               /\ EmbeddedFrom(tasks'[t].paragraphs, tasks'[t].embeddings)
       /\ \A t \in DOMAIN tasks :
            Writes(t) /\ tasks[t].doc \in DOMAIN docs =>
               Lists(tasks[t].doc)' = <<tasks[t].paragraphs, tasks[t].embeddings>>
       /\ \A d \in DOMAIN docs \cup DOMAIN docs' :
            d \in DOMAIN docs' /\ Lists(d)' # Lists(d) =>
               \E t \in DOMAIN tasks : Writes(t) /\ tasks[t].doc = d
      ]_vars

\* A reindex has replaced an earlier, different paragraph set of its document.
FullReplacementWitness ==
    \E t \in DOMAIN tasks :
       /\ At(t, "reindex", "done") /\ tasks[t].success
       /\ tasks[t].doc \in DOMAIN docs
       /\ Paragraphs(tasks[t].doc) # <<>>
       /\ Paragraphs(tasks[t].doc) = Segmented[docs[tasks[t].doc].content]
       /\ \E w \in written :
             /\ w.doc = tasks[t].doc
             /\ w.paragraphs # <<>>
             /\ \A i \in 1..Len(w.paragraphs) :
                   w.paragraphs[i] \notin Range(Paragraphs(tasks[t].doc))

\* A reindex run that ended with False.
FailedReindex(t) == At(t, "reindex", "done") /\ ~tasks[t].success

\* C11 (reindex failure atomicity), as claimed, in the case the claim names:
\* when a reprocessing run of a document that was processed before the run has
\* failed, the document holds no partial paragraph set (as many embeddings as
\* paragraphs) and its is_processed flag is false.
ReindexFailureAtomicity ==
    \A t \in DOMAIN tasks :
       FailedReindex(t) /\ (\E b \in tasks[t].before : b.is_processed) =>
          \A l \in tasks[t].left : l.paragraphs = l.embeddings /\ ~l.is_processed

\* C14 (storage errors are propagated), as claimed: a search_documents or
\* process_uploaded_document call in which a read or write of the store
\* raised ends by raising to its caller, not with the empty list or False.
StorageErrorsPropagated ==
    \A t \in DOMAIN tasks :
       /\ At(t, "search", "done") \/ At(t, "upload", "done")
       /\ tasks[t].storage_failed
       => tasks[t].raised

\* This step is the call of search_documents that starts request t.
Starts(t) == t = Len(tasks) + 1 /\ t \in DOMAIN tasks' /\ tasks'[t].op = "search"

\* The documents of the user that are marked processed.
ProcessedOf(user_id) ==
    {d \in DOMAIN docs : OwnedBy(docs[d], user_id) /\ Get(docs[d], "is_processed", FALSE)}

\* C19 (empty-scope short-circuit): a search_documents call made while its
\* user has no processed document ends at once with the empty list, having
\* called get_user_documents only: no query embedding is computed and
\* search_similar_paragraphs is not called, then or later.
EmptyScopeShortCircuit ==
    [][/\ \A t \in DOMAIN tasks' :
            Starts(t) /\ ProcessedOf(tasks'[t].user) = {} =>
               /\ tasks'[t].pc = "done"
               /\ tasks'[t].result = <<>>
               /\ tasks'[t].calls = {"get_user_documents"}
               /\ tasks'[t].by = None /\ tasks'[t].embeddings = <<>>
       /\ \A t \in DOMAIN tasks :
            tasks[t].pc = "done" => tasks'[t] = tasks[t]
      ]_vars

\* C19 witness: a search of a user who has documents, none of them processed,
\* has ended without an embedding and without a search.
EmptyScopeWitness ==
    \E t \in DOMAIN tasks :
       /\ Searched(t) /\ ~tasks[t].storage_failed
       /\ tasks[t].calls = {"get_user_documents"}
       /\ tasks[t].result = <<>>
       /\ ProcessedOf(tasks[t].user) = {}
       /\ \E d \in DOMAIN docs : OwnedBy(docs[d], tasks[t].user)

\* ------------------------------------------------------------ direct calls
\* The second specification: the search functions called directly, with any
\* arguments, on a store left behind by finished uploads.

\* The store after upload_document(user, file) has run on it to the end with
\* the embeddings of backend `by`; by = None is an upload that stopped after
\* the content write.
finished_upload(store, oid, user, file, by) ==
    LET created == create_document(store, oid, user, <<>>, oid)
        filled == update_one(created, oid, [content |-> Extracted[file]])
        paragraphs == Segmented[Extracted[file]]
        embedded == generate_embeddings(paragraphs, by # HASH, by, TRUE)
    IN  IF by = None \/ paragraphs = <<>> THEN filled
        ELSE update_document_processing(filled, oid, paragraphs, embedded.vectors)

RECURSIVE finished_uploads(_)
finished_uploads(uploads) ==
    IF uploads = <<>> THEN NoDocs
    ELSE LET n == Len(uploads)
             u == uploads[n]
         IN  finished_upload(finished_uploads(SubSeq(uploads, 1, n - 1)),
                             n, u.user, u.file, u.by)

RECURSIVE upserted_profiles(_)
upserted_profiles(upserts) ==
    IF upserts = <<>> THEN <<>>
    ELSE LET n == Len(upserts)
         IN  upsert_profile_embedding(upserted_profiles(SubSeq(upserts, 1, n - 1)),
                                      upserts[n].user, upserts[n].text)

\* sequences over S of length at most n
SeqUpTo(S, n) == UNION {[1..m -> S] : m \in 0..n}

StoredUploads == [user : Users, file : {FileA, FileB}, by : {HASH, None}]
ProfileUsers == {1, 2, 3}
ProfileTexts == {<<"a">>, <<"b">>, <<"c">>}
ProfileUpserts == [user : ProfileUsers, text : ProfileTexts]

\* The query vectors of the direct calls: the two embeddings of a query text
\* and the zero vector.
QueryVectors ==
    UNION {{compute_embedding(q), model_encode(MINI_LM, q)} : q \in Queries}
    \cup {Vec(DIM, 0, 0)}

\* top_k of the direct calls
TopKs == (0 - 2)..MaxK

InitCalls ==
    /\ \/ /\ docs \in {finished_uploads(u) : u \in SeqUpTo(StoredUploads, MaxStored)}
          /\ profiles = <<>>
       \/ /\ docs = NoDocs
          /\ profiles \in {upserted_profiles(u) : u \in SeqUpTo(ProfileUpserts, MaxStored)}
    /\ next_id = Cardinality(DOMAIN docs) + 1
    /\ available = TRUE
    /\ embedding_model = None
    /\ tasks = <<>>
    /\ requests = 0
    /\ written = {}
    /\ deleted = {}
    /\ created_by = NoDocs
    /\ embedded_by = NoDocs
    /\ call = NoCall
    /\ media = {}
    /\ community_posts = NoDocs
    /\ study_profiles = <<>>

\* EmbeddingService.search_similar_paragraphs(query_embedding, user_doc_ids, top_k)
call_search_similar_paragraphs(query_embedding, user_doc_ids, top_k) ==
    /\ call = NoCall
    /\ call' = [op |-> "search_similar_paragraphs",
                query_embedding |-> query_embedding,
                user_doc_ids |-> user_doc_ids,
                top_k |-> top_k,
                result |-> search_similar_paragraphs(docs, query_embedding,
                                                     user_doc_ids, top_k)]
    /\ UNCHANGED <<docs, next_id, available, embedding_model, tasks, requests,
                   written, deleted, created_by, embedded_by, profiles,
                   media, community_posts, study_profiles>>

\* SemanticSearchService.search_documents(query, user_id, top_k)
call_search_documents(query, user_id, top_k, loaded, encode_ok) ==
    /\ call = NoCall
    /\ LET model == get_embedding_model(embedding_model, available, loaded)
           r == search_documents_call(docs, query, user_id, top_k, available,
                                      model, encode_ok)
       IN  /\ call' = [op |-> "search_documents", query |-> query,
                       user_id |-> user_id, top_k |-> top_k,
                       query_embedding |-> r.query_embedding, result |-> r.result]
           /\ embedding_model' = IF r.by # None /\ available THEN model
                                 ELSE embedding_model
    /\ UNCHANGED <<docs, next_id, available, tasks, requests, written, deleted,
                   created_by, embedded_by, profiles,
                   media, community_posts, study_profiles>>

\* ai/embeddings.py vector_search(query_text, k)
call_vector_search(query_text, k, atlas, read_ok) ==
    /\ call = NoCall
    /\ LET r == vector_search(profiles, query_text, k, atlas, read_ok)
       IN  call' = [op |-> "vector_search", query_text |-> query_text, k |-> k,
                    atlas |-> atlas, read_ok |-> read_ok,
                    path |-> r.path, result |-> r.result, raised |-> r.raised]
    /\ UNCHANGED <<docs, next_id, available, embedding_model, tasks, requests,
                   written, deleted, created_by, embedded_by, profiles,
                   media, community_posts, study_profiles>>

\* The caller takes the result; the calls are made one after the other.
return_call ==
    /\ call # NoCall
    /\ call' = NoCall
    /\ UNCHANGED <<docs, next_id, available, embedding_model, tasks, requests,
                   written, deleted, created_by, embedded_by, profiles,
                   media, community_posts, study_profiles>>

NextCalls ==
    \/ /\ call = NoCall
       /\ \E qv \in QueryVectors, ids \in SUBSET (0..MaxStored), k \in TopKs :
             call_search_similar_paragraphs(qv, Ascending(ids), k)
    \/ /\ call = NoCall
       /\ \E query \in Queries, user \in Users \cup {0}, k \in TopKs,
             loaded \in SpecLoads, ok \in BOOLEAN :
             call_search_documents(query, user, k, loaded, ok)
    \/ /\ call = NoCall
       /\ \E query \in Queries, k \in TopKs, atlas \in AtlasOutcomes, read_ok \in BOOLEAN :
             call_vector_search(query, k, atlas, read_ok)
    \/ return_call

SpecCalls == InitCalls /\ [][NextCalls]_vars

\* ------------------------------------------- properties of the direct calls
Called(op) == call.op = op

\* The entries of a list, as a set.
Entries(lst) == {lst[i] : i \in 1..Len(lst)}

\* The candidates of the last search_similar_paragraphs / search_documents call
\* that are scored in the documents ids.
CandidatesIn(ids) == scored_paragraphs(docs, call.query_embedding, Ascending(ids))

\* C1 (scope isolation): search_similar_paragraphs returns only paragraphs of
\* documents whose id is in the scope it was given, and search_documents
\* returns only paragraphs of documents owned by the user it was called for.
ScopeIsolation ==
    /\ Called("search_similar_paragraphs") =>
          \A e \in Entries(call.result) : e.document_id \in Range(call.user_doc_ids)
    /\ Called("search_documents") =>
          \A e \in Entries(call.result) :
             /\ e.document_id \in DOMAIN docs
             /\ OwnedBy(docs[e.document_id], call.user_id)

\* C1 witness: search_documents has returned paragraphs while a document of
\* another user holds a paragraph strictly more similar to the query than
\* every paragraph returned.
ScopeIsolationWitness ==
    /\ Called("search_documents")
    /\ call.result # <<>>
    /\ \E d \in DOMAIN docs :
          /\ ~OwnedBy(docs[d], call.user_id)
          /\ \E c \in Entries(CandidatesIn({d})) :
                \A e \in Entries(call.result) : MoreSimilar(c, e)

\* result is min(k, n) of the n candidates in non-increasing order, and no
\* candidate left out is greater than one returned; greater[x][y] tells
\* whether entry x is greater than entry y.
IsTopK(result, candidates, k, greater) ==
    /\ Len(result) = Min2(k, Len(candidates))
    /\ Entries(result) \subseteq Entries(candidates)
    /\ Cardinality(Entries(result)) = Len(result)
    /\ \A i \in 1..Len(result) : \A j \in 1..Len(result) :
          i < j => ~greater[result[j]][result[i]]
    /\ \A c \in Entries(candidates) \ Entries(result) :
          \A e \in Entries(result) : ~greater[c][e]

\* C5 (top-K ordering): for k > 0, search_similar_paragraphs and the Python
\* fallback of vector_search return exactly min(k, number of scored
\* candidates) results in non-increasing order of similarity, and no omitted
\* candidate is strictly more similar than a returned one.
TopKOrdering ==
    /\ Called("search_similar_paragraphs") /\ call.top_k > 0 =>
          IsTopK(call.result, CandidatesIn(Range(call.user_doc_ids)), call.top_k,
                 [x \in Entries(call.result) \cup Entries(CandidatesIn(Range(call.user_doc_ids)))
                    |-> [y \in Entries(call.result) |-> MoreSimilar(x, y)]])
    /\ Called("vector_search") /\ call.path = "python" /\ ~call.raised /\ call.k > 0 =>
          IsTopK(call.result,
                 scored_profiles(profiles, compute_embedding(call.query_text)),
                 call.k,
                 [x \in Entries(call.result)
                         \cup Entries(scored_profiles(profiles,
                                                     compute_embedding(call.query_text)))
                    |-> [y \in Entries(call.result) |-> HigherScore(x, y)]])

\* C5 witness: search_similar_paragraphs has cut the candidates down to k > 0
\* results of differing similarity.
TopKOrderingWitness ==
    /\ Called("search_similar_paragraphs")
    /\ call.top_k > 0
    /\ Len(CandidatesIn(Range(call.user_doc_ids))) > call.top_k
    /\ \E c \in Entries(CandidatesIn(Range(call.user_doc_ids))) :
          MoreSimilar(call.result[1], c)

NonPositiveKIsEmpty ==
    /\ (Called("search_similar_paragraphs") \/ Called("search_documents"))
       /\ call.top_k <= 0 => call.result = <<>>
    /\ Called("vector_search") /\ call.k <= 0 => call.result = <<>>

\* ------------------------------------------------------- direct upserts
\* The third specification: DocumentService.update_document_processing called
\* directly with any paragraphs and embeddings.
UpsertUploads == [user : {1}, file : {FileA}, by : {HASH, None}]
UpsertParagraphs == {<<>>, Segmented[Extracted[FileA]]}
UpsertEmbeddings ==
    {<<>>, <<Vec(DIM, 0, 1)>>, <<Vec(3, 0, 1)>>, <<Vec(DIM, 0, 1), Vec(DIM, 1, 0)>>}

InitUpsert ==
    /\ docs \in {finished_uploads(u) : u \in SeqUpTo(UpsertUploads, MaxStored)}
    /\ profiles = <<>>
    /\ next_id = Cardinality(DOMAIN docs) + 1
    /\ available = TRUE
    /\ embedding_model = None
    /\ tasks = <<>>
    /\ requests = 0
    /\ written = {}
    /\ deleted = {}
    /\ created_by = NoDocs
    /\ embedded_by = NoDocs
    /\ call = NoCall
    /\ media = {}
    /\ community_posts = NoDocs
    /\ study_profiles = <<>>

\* DocumentService.update_document_processing(doc_id, paragraphs, embeddings):
\* the function returns None on every path, it has no raise.
call_update_document_processing(doc_id, paragraphs, embeddings) ==
    /\ docs' = update_document_processing(docs, doc_id, paragraphs, embeddings)
    /\ call' = [op |-> "update_document_processing", doc_id |-> doc_id,
                paragraphs |-> paragraphs, embeddings |-> embeddings,
                raised |-> None, before |-> get_document_by_id(docs, doc_id)]
    /\ UNCHANGED <<next_id, available, embedding_model, tasks, requests,
                   written, deleted, created_by, embedded_by, profiles,
                   media, community_posts, study_profiles>>

NextUpsert ==
    \E doc_id \in 0..MaxStored, paragraphs \in UpsertParagraphs,
       embeddings \in UpsertEmbeddings :
       call_update_document_processing(doc_id, paragraphs, embeddings)

SpecUpsert == InitUpsert /\ [][NextUpsert]_vars

\* len(paragraphs) != len(embeddings), or an embedding that is not of DIM
DimensionMismatch(paragraphs, embeddings) ==
    \/ Len(paragraphs) # Len(embeddings)
    \/ \E i \in 1..Len(embeddings) : Dim(embeddings[i]) # DIM

\* C10, as claimed: update_document_processing fails with DimensionMismatch
\* when the paragraphs and embeddings differ in number or an embedding is not
\* of length 384, and the document is then as it was before the call.
UpsertValidation ==
    Called("update_document_processing")
    /\ DimensionMismatch(call.paragraphs, call.embeddings) =>
          /\ call.raised = "DimensionMismatch"
          /\ get_document_by_id(docs, call.doc_id) = call.before

\* ------------------------------------------------------- a large library
\* The fourth specification: search_documents for an owner with MaxOwnerDocs
\* documents, all uploaded and processed with the hash-based embedding; the
\* model does not load during the searches either, so the query is embedded
\* as the stored paragraphs are.

\* The store after n finished uploads of the owner, the uploads other than
\* number `other` being of FileA and that one of FileB.
owner_store(n, other) ==
    [d \in 1..n |->
        finished_upload(NoDocs, d, 1, IF d = other THEN FileB ELSE FileA, HASH)[d]]

\* top_k of the searches: the least one and the one of the search view
ScopeTopKs == {1, SEARCH_TOP_K}

InitScope ==
    /\ docs \in {owner_store(MaxOwnerDocs, other) : other \in 1..MaxOwnerDocs}
    /\ profiles = <<>>
    /\ next_id = Cardinality(DOMAIN docs) + 1
    /\ available = TRUE
    /\ embedding_model = None
    /\ tasks = <<>>
    /\ requests = 0
    /\ written = {}
    /\ deleted = {}
    /\ created_by = NoDocs
    /\ embedded_by = NoDocs
    /\ call = NoCall
    /\ media = {}
    /\ community_posts = NoDocs
    /\ study_profiles = <<>>

NextScope ==
    \/ \E query \in Queries, k \in ScopeTopKs :
          call_search_documents(query, 1, k, None, TRUE)
    \/ return_call

SpecScope == InitScope /\ [][NextScope]_vars

\* C7, as claimed: for k >= 1 the result of search_documents holds a
\* best-scoring paragraph among all processed documents of the owner, however
\* many documents the owner has.
ScopeCompleteness ==
    Called("search_documents") /\ call.top_k >= 1 /\ call.result # <<>> =>
       \E e \in Entries(call.result) :
          \A c \in Entries(CandidatesIn(ProcessedOf(call.user_id))) : ~MoreSimilar(c, e)

\* --------------------------------------------------------- drifted rows
\* The fifth specification: the searches on stores whose rows were not all
\* written by this version of the program (the database is shared and
\* outlives it): embeddings of another length or of norm zero, documents
\* that hold paragraphs while not marked processed, profile rows without an
\* embedding.

\* the embeddings a stored paragraph may have: two of the right length, the
\* zero vector and one of another length
RowEmbeddings == {Vec(DIM, 1, 0), Vec(DIM, 0, 1), Vec(DIM, 0, 0), Vec(3, 0, 1)}

\* the query vectors: one of the right length, the zero vector and one of the
\* other length
RowQueries == {Vec(DIM, 1, 0), Vec(DIM, 0, 0), Vec(3, 0, 1)}

\* Document oid of user 1 with one paragraph per embedding; paragraph i of
\* document d is the text "d.i".
stored_document(oid, processed, embeddings) ==
    update_one(create_document(NoDocs, oid, 1, <<>>, oid), oid,
               [is_processed |-> processed,
                paragraphs |-> [i \in 1..Len(embeddings) |->
                                   Decimal(oid) \o <<".">> \o Decimal(i)],
                paragraph_embeddings |-> embeddings])[oid]

RowLists == {e \in SeqUpTo(RowEmbeddings, MaxRows) : e # <<>>}

\* the stores of two documents
RowDocIds == {1, 2}
RowStores ==
    {[d \in RowDocIds |-> stored_document(d, flags[d], lists[d])] :
        flags \in [RowDocIds -> BOOLEAN], lists \in [RowDocIds -> RowLists]}

\* the rows of db.profiles_embeddings: written by upsert_profile_embedding,
\* with an embedding of another length, or without one
ProfileRows ==
    {[user_id |-> u, embedding |-> compute_embedding(t)] : u \in {1, 2}, t \in ProfileTexts}
    \cup {[user_id |-> u, embedding |-> Vec(3, 0, 1)] : u \in {1, 2}}
    \cup {[user_id |-> u] : u \in {1, 2}}

\* top_k of these searches: the least one, one that cuts the last paragraph
\* off and one that cuts nothing
RowTopKs == {1, 2 * MaxRows - 1, 2 * MaxRows}

InitRows ==
    /\ \/ docs \in RowStores /\ profiles = <<>>
       \/ docs = NoDocs /\ profiles \in SeqUpTo(ProfileRows, MaxRows) \ {<<>>}
    /\ next_id = Cardinality(DOMAIN docs) + 1
    /\ available = TRUE
    /\ embedding_model = None
    /\ tasks = <<>>
    /\ requests = 0
    /\ written = {}
    /\ deleted = {}
    /\ created_by = NoDocs
    /\ embedded_by = NoDocs
    /\ call = NoCall
    /\ media = {}
    /\ community_posts = NoDocs
    /\ study_profiles = <<>>

NextRows ==
    \/ /\ call = NoCall
       /\ \E qv \in RowQueries, k \in RowTopKs :
             call_search_similar_paragraphs(qv, Ascending(DOMAIN docs), k)
    \/ /\ call = NoCall
       /\ \E query \in Queries, k \in RowTopKs : call_vector_search(query, k, "error", TRUE)
    \/ return_call

SpecRows == InitRows /\ [][NextRows]_vars

\* ------------------------------------------ properties of the drifted rows
\* The stored embedding a result entry was scored with.
StoredEmbedding(e) == docs[e.document_id].paragraph_embeddings[e.paragraph_index + 1]

\* The paragraph-embedding pairs of document d that zip yields.
Pairs(d) == 1..Min2(Len(Paragraphs(d)), Len(Embeddings(d)))

\* The store without the pairs whose embedding is not as long as qv.
without_malformed(store, qv) ==
    [d \in DOMAIN store |->
        LET paragraphs == Get(store[d], "paragraphs", <<>>)
            embeddings == Get(store[d], "paragraph_embeddings", <<>>)
            kept == Ascending({i \in 1..Min2(Len(paragraphs), Len(embeddings)) :
                                  Dim(embeddings[i]) = Dim(qv)})
        IN  SetFields(store[d],
                      [paragraphs |-> [j \in 1..Len(kept) |-> paragraphs[kept[j]]],
                       paragraph_embeddings |-> [j \in 1..Len(kept) |-> embeddings[kept[j]]]])]

\* A result list without the paragraph indexes, which shift when a pair is
\* taken out of a document.
Unindexed(result) ==
    [i \in 1..Len(result) |->
        [document_id |-> result[i].document_id, paragraph |-> result[i].paragraph,
         similarity |-> result[i].similarity]]

\* The profile row has an embedding of DIM numbers.
WellFormedRow(row) == Dim(Get(row, "embedding", Vec(0, 0, 0))) = DIM

ZeroNorm(v) == Dot(v, v) = 0

\* C16 (zero-norm candidates are skipped): search_similar_paragraphs returns
\* no paragraph whose stored embedding has norm zero, and none at all when the
\* query vector has norm zero; every similarity it returns is a quotient by a
\* non-zero product of norms.
ZeroNormSkipped ==
    Called("search_similar_paragraphs") =>
       /\ \A e \in Entries(call.result) : ~ZeroNorm(StoredEmbedding(e))
       /\ ZeroNorm(call.query_embedding) => call.result = <<>>
       /\ \A e \in Entries(call.result) : e.similarity.den2 > 0

\* C16 witness: a processed document holds a zero vector of the length of the
\* query vector, and the search, cutting nothing, has returned a paragraph.
ZeroNormSkippedWitness ==
    /\ Called("search_similar_paragraphs")
    /\ call.result # <<>> /\ Len(call.result) < call.top_k
    /\ \E d \in DOMAIN docs :
          /\ docs[d].is_processed
          /\ \E i \in Pairs(d) :
                /\ Dim(Embeddings(d)[i]) = Dim(call.query_embedding)
                /\ ZeroNorm(Embeddings(d)[i])

\* C17 (processed-only candidates): search_similar_paragraphs returns no
\* paragraph of a document that is not marked processed.
ProcessedOnly ==
    Called("search_similar_paragraphs") =>
       \A e \in Entries(call.result) : docs[e.document_id].is_processed = TRUE

\* C17 witness: a document in scope is not marked processed and holds a
\* paragraph that would be scored, and the search, cutting nothing, has
\* returned paragraphs of the other document.
ProcessedOnlyWitness ==
    /\ Called("search_similar_paragraphs")
    /\ call.result # <<>> /\ Len(call.result) < call.top_k
    /\ \E d \in Range(call.user_doc_ids) \cap DOMAIN docs :
          /\ ~docs[d].is_processed
          /\ \E i \in Pairs(d) :
                /\ Dim(Embeddings(d)[i]) = Dim(call.query_embedding)
                /\ ~ZeroNorm(Embeddings(d)[i])

\* Entry x is read before entry y: its document is read first, or it is an
\* earlier paragraph of the same document.
ReadBefore(x, y) ==
    \/ x.document_id < y.document_id
    \/ x.document_id = y.document_id /\ x.paragraph_index < y.paragraph_index

Tied(x, y) == SimEqual(x.similarity, y.similarity)

\* C18 (deterministic tie-breaking): of two returned paragraphs of equal
\* similarity the one read first comes first, and a paragraph left out by the
\* cut at top_k is not read before a returned one of equal similarity; so the
\* result is a function of the stored data and the arguments.
TieBreaking ==
    Called("search_similar_paragraphs") /\ call.top_k > 0 =>
       /\ \A i, j \in 1..Len(call.result) :
             i < j /\ Tied(call.result[i], call.result[j]) =>
                ReadBefore(call.result[i], call.result[j])
       /\ \A c \in Entries(CandidatesIn(Range(call.user_doc_ids))) \ Entries(call.result) :
             \A e \in Entries(call.result) : Tied(c, e) => ReadBefore(e, c)

\* C18 witness: the result holds two paragraphs of equal similarity of one
\* document and one of the other, and the cut has left out a tied one.
TieBreakingWitness ==
    /\ Called("search_similar_paragraphs")
    /\ \E i, j \in 1..Len(call.result) :
          /\ i < j /\ Tied(call.result[i], call.result[j])
          /\ call.result[i].document_id = call.result[j].document_id
    /\ \E i, j \in 1..Len(call.result) :
          /\ i < j /\ Tied(call.result[i], call.result[j])
          /\ call.result[i].document_id # call.result[j].document_id
    /\ \E c \in Entries(CandidatesIn(Range(call.user_doc_ids))) \ Entries(call.result) :
          Tied(c, call.result[Len(call.result)])

\* ------------------------------------------------------------ segmentation
\* The sixth specification: PDFProcessor.split_text_into_paragraphs called
\* directly on short texts of letters, full stops, spaces and newlines, with
\* small bounds min_length <= max_length.
SegmentChars == {"a", ".", " ", "\n"}
SegmentTexts == SeqUpTo(SegmentChars, MaxText) \cup {NoText}
MinLengths == {0, 1, 2}

\* split_text_into_paragraphs(text, min_length, max_length)
call_split_text_into_paragraphs(text, min_length, max_length) ==
    /\ call = NoCall
    /\ call' = [op |-> "split_text_into_paragraphs", text |-> text,
                min_length |-> min_length, max_length |-> max_length,
                result |-> split_text_into_paragraphs(text, min_length, max_length)]
    /\ UNCHANGED <<docs, next_id, available, embedding_model, tasks, requests,
                   written, deleted, created_by, embedded_by, profiles,
                   media, community_posts, study_profiles>>

InitSegment ==
    /\ docs = NoDocs
    /\ profiles = <<>>
    /\ next_id = 1
    /\ available = TRUE
    /\ embedding_model = None
    /\ tasks = <<>>
    /\ requests = 0
    /\ written = {}
    /\ deleted = {}
    /\ created_by = NoDocs
    /\ embedded_by = NoDocs
    /\ call = NoCall
    /\ media = {}
    /\ community_posts = NoDocs
    /\ study_profiles = <<>>

NextSegment ==
    \/ /\ call = NoCall
       /\ \E text \in SegmentTexts, max_length \in 1..MaxLength, min_length \in MinLengths :
             /\ min_length <= max_length
             /\ call_split_text_into_paragraphs(text, min_length, max_length)
    \/ return_call

SpecSegment == InitSegment /\ [][NextSegment]_vars

\* The sentences of a text: what the full stops, question and exclamation
\* marks separate, without the whitespace around them.
SentencesOf(text) ==
    {strip(x) : x \in Range(split_sentences(sub_spaces(strip(text))))}

\* C20 (segmentation upper bound), as claimed: every paragraph returned is at
\* most max_length long, or is one sentence of the text that is longer than
\* max_length by itself.
SegmentationUpperBound ==
    Called("split_text_into_paragraphs") =>
       \A p \in Entries(call.result) :
          \/ Len(p) <= call.max_length
          \/ p \in SentencesOf(call.text)

\* C21 (segmentation lower bound), as claimed: every paragraph returned is at
\* least min_length long, the chunks of a re-split candidate included.
SegmentationLowerBound ==
    Called("split_text_into_paragraphs") =>
       \A p \in Entries(call.result) : Len(p) >= call.min_length

\* The text is one word: not empty, no whitespace and no end of sentence in it.
IsBlock(s) == s # <<>> /\ \A i \in 1..Len(s) : ~IsSpace(s[i]) /\ ~IsStop(s[i])

\* The ways of reading a text as two blocks with one blank line between them.
TwoBlocks(text) ==
    {b \in {<<SubSeq(text, 1, i - 1), SubSeq(text, i + 2, Len(text))>> :
               i \in {j \in 1..(Len(text) - 1) : text[j] = "\n" /\ text[j + 1] = "\n"}} :
        IsBlock(b[1]) /\ IsBlock(b[2])}

\* the blocks that are at least min_length long
LongEnough(blocks, min_length) ==
    LET kept == Ascending({i \in 1..Len(blocks) : Len(blocks[i]) >= min_length})
    IN  [j \in 1..Len(kept) |-> blocks[kept[j]]]

\* C22 (blank-line splitting), as claimed: for a text of two blocks (here two
\* words) with a blank line between them, neither longer than max_length, the paragraphs
\* returned are the blocks that are at least min_length long, one paragraph per
\* block: both blocks, or the one left when the other is too short.
BlankLineSplitting ==
    Called("split_text_into_paragraphs") =>
       \A b \in TwoBlocks(call.text) :
          Len(b[1]) <= call.max_length /\ Len(b[2]) <= call.max_length =>
             call.result = LongEnough(b, call.min_length)

\* C23 (segmenter edge cases): split_text_into_paragraphs returns the empty
\* list for None, for the empty text and for a text of whitespace only, and no
\* paragraph it returns is empty or begins or ends with whitespace.
SegmenterEdgeCases ==
    Called("split_text_into_paragraphs") =>
       /\ call.text = NoText \/ (\A i \in 1..Len(call.text) : IsSpace(call.text[i])) =>
             call.result = <<>>
       /\ \A p \in Entries(call.result) :
             p # <<>> /\ ~IsSpace(p[1]) /\ ~IsSpace(p[Len(p)])

\* C23 witness: a text with whitespace at both ends has been cut into two
\* paragraphs.
SegmenterEdgeCasesWitness ==
    /\ Called("split_text_into_paragraphs")
    /\ call.text # NoText /\ Len(call.text) >= 2
    /\ IsSpace(call.text[1]) /\ IsSpace(call.text[Len(call.text)])
    /\ Len(call.result) = 2

\* ----------------------------------------------------------- hash embedding
\* Direct calls of ai/embeddings.py compute_embedding value by
\* value.  (The searches above keep of an embedding its length and direction
\* only; here the 384 values are computed as the loop computes them.)  The
\* values are kept as integers in units of 1 / VAL_SCALE: the float
\* ((val % 1000) / 500.0) - 1.0 is the integer (val % 1000) - 500.

\* text.encode("utf-8") for the characters used here
Code(c) == CASE c = "a" -> 97 [] c = "b" -> 98 [] c = "c" -> 99 [] OTHER -> 32

\* (text or "").encode("utf-8")
encode(text) == IF text = NoText THEN <<>> ELSE [i \in 1..Len(text) |-> Code(text[i])]

\* sum(s[lo..hi])
RECURSIVE SumRange(_, _, _)
SumRange(s, lo, hi) ==
    IF lo > hi THEN 0
    ELSE IF lo = hi THEN s[lo]
    ELSE SumRange(s, lo, (lo + hi) \div 2) + SumRange(s, (lo + hi) \div 2 + 1, hi)

Sum(s) == SumRange(s, 1, Len(s))

\* SHA-256 is outside the repository: it is kept as a function from byte
\* strings to digests of DIGEST_SIZE bytes, here one of five digests chosen by
\* the bytes of the seed.  Digest 2 is the one whose every pair of bytes is
\* the value 500 (bytes 1, 244), which the loop maps to 0.0; it is its own
\* successor, so a text that reaches it is embedded as the zero vector.
digest_byte(kind, i) ==
    IF kind = 2 THEN (IF i % 2 = 1 THEN 1 ELSE 244)
    ELSE (i * (kind + 3) + kind) % 256

sha256(seed) ==
    LET kind == (Sum(seed) + Len(seed)) % 5
    IN  [i \in 1..DIGEST_SIZE |-> digest_byte(kind, i)]

\* int.from_bytes(h[i : i + 2], "big", signed = False) for the k-th i of
\* range(0, len(h), 2); the last slice of a digest of odd length is one byte
pair_value(h, k) ==
    IF 2 * k <= Len(h) THEN h[2 * k - 1] * 256 + h[2 * k] ELSE h[2 * k - 1]

\* The body of the for loop, lines 29-34, for one digest: the values appended
\* to a list v of length n.  The break leaves the loop once v has DIM values.
digest_values(h, n) ==
    LET pairs == (Len(h) + 1) \div 2
        taken == Min2(pairs, Max2(DIM - n, 0))
    IN  [k \in 1..taken |-> (pair_value(h, k) % VAL_MODULUS) - VAL_SCALE]

\* The while loop going on while len(v) <= DIM.  The code does not do this.
RECURSIVE embedding_loop_past(_, _, _, _)
embedding_loop_past(v, seed, seeds, taken) ==
    IF Len(v) > DIM THEN [v |-> v, seeds |-> seeds, taken |-> taken]
    ELSE LET h == sha256(seed)
             values == digest_values(h, Len(v) - 1)
         IN  embedding_loop_past(v \o values, h, Append(seeds, seed), Append(taken, Len(values)))

\* The while loop, lines 26-35: [v, seeds, taken], seeds being the seeds
\* hashed so far and taken the number of values each digest gave.
RECURSIVE embedding_loop(_, _, _, _)
embedding_loop(v, seed, seeds, taken) ==
    IF Len(v) >= DIM THEN [v |-> v, seeds |-> seeds, taken |-> taken]
    ELSE LET h == sha256(seed)
             values == digest_values(h, Len(v))
         IN  embedding_loop(v \o values, h, Append(seeds, seed), Append(taken, Len(values)))

\* The division without `or 1.0`.  The code does not do this.
normalize_unguarded(v) ==
    [values |-> v, norm2 |-> Sum([i \in 1..Len(v) |-> v[i] * v[i]])]

\* Lines 37-38: norm = math.sqrt(sum(x * x for x in v)) or 1.0 and the
\* division by it.  The quotient x / norm is kept exactly, as the values and
\* the square of the divisor in their unit: component i is
\* values[i] / sqrt(norm2).
normalize(v) ==
    LET squares == Sum([i \in 1..Len(v) |-> v[i] * v[i]])
    IN  [values |-> v,
         norm2 |-> IF squares = 0 THEN VAL_SCALE * VAL_SCALE ELSE squares]

\* compute_embedding reading the store.  The code does not do this.
compute_embedding_of_store(text) ==
    LET looped == embedding_loop(<<>>, encode(text) \o [i \in 1..Len(profiles) |-> 1], <<>>, <<>>)
        normal == normalize(looped.v)
    IN  [values |-> normal.values, norm2 |-> normal.norm2,
         seeds |-> looped.seeds, taken |-> looped.taken]

\* compute_embedding, value by value: [values, norm2, seeds, taken]
compute_embedding_values(text) ==
    LET looped == embedding_loop(<<>>, encode(text), <<>>, <<>>)
        normal == normalize(looped.v)
    IN  [values |-> normal.values, norm2 |-> normal.norm2,
         seeds |-> looped.seeds, taken |-> looped.taken]

\* The texts embedded in SpecEmbed: None, the empty text, and texts of the
\* digests above ("ab" is the text embedded as the zero vector).
EmbedTexts == {NoText, <<>>, <<"a">>, <<"b">>, <<"a", "b">>}

\* compute_embedding of the texts above and of the profile texts, computed once
Embedded == [t \in EmbedTexts \cup ProfileTexts |-> compute_embedding_values(t)]

InitEmbed ==
    /\ docs \in {NoDocs, finished_uploads(<<[user |-> 1, file |-> FileA, by |-> HASH]>>)}
    /\ profiles = <<>>
    /\ next_id = Cardinality(DOMAIN docs) + 1
    /\ available = TRUE
    /\ embedding_model = None
    /\ tasks = <<>>
    /\ requests = 0
    /\ written = {}
    /\ deleted = {}
    /\ created_by = NoDocs
    /\ embedded_by = NoDocs
    /\ call = NoCall
    /\ media = {}
    /\ community_posts = NoDocs
    /\ study_profiles = <<>>

\* A call of compute_embedding(text).  tasks is the log of the calls of
\* compute_embedding made so far, each with its text and what it returned.
call_compute_embedding(text) ==
    /\ call = NoCall
    /\ requests < MaxEmbedCalls
    /\ requests' = requests + 1
    /\ call' = [op |-> "compute_embedding", text |-> text,
                result |-> Embedded[text]]
    /\ tasks' = Append(tasks, call')
    /\ UNCHANGED <<docs, next_id, available, embedding_model, written, deleted,
                   created_by, embedded_by, profiles,
                   media, community_posts, study_profiles>>

\* A call of upsert_profile_embedding(user_id, text): it calls
\* compute_embedding(text) and writes the row of the user.
call_upsert_profile_embedding(user_id, text) ==
    /\ call = NoCall
    /\ requests < MaxEmbedCalls
    /\ requests' = requests + 1
    /\ profiles' = upsert_profile_embedding(profiles, user_id, text)
    /\ call' = [op |-> "upsert_profile_embedding", user_id |-> user_id, text |-> text]
    /\ tasks' = Append(tasks, [op |-> "compute_embedding", text |-> text,
                               result |-> Embedded[text]])
    /\ UNCHANGED <<docs, next_id, available, embedding_model, written, deleted,
                   created_by, embedded_by,
                   media, community_posts, study_profiles>>

\* A call of EmbeddingProcessor.get_embedding_model() that loads the model.
call_get_embedding_model ==
    /\ call = NoCall
    /\ embedding_model = None
    /\ embedding_model' = get_embedding_model(embedding_model, available, MINI_LM)
    /\ call' = [op |-> "get_embedding_model"]
    /\ UNCHANGED <<docs, next_id, available, tasks, requests, written, deleted,
                   created_by, embedded_by, profiles,
                   media, community_posts, study_profiles>>

NextEmbed ==
    \/ /\ call = NoCall
       /\ \E text \in EmbedTexts : call_compute_embedding(text)
    \/ /\ call = NoCall
       /\ \E user_id \in Users, text \in Queries :
             call_upsert_profile_embedding(user_id, text)
    \/ call_get_embedding_model
    \/ return_call

SpecEmbed == InitEmbed /\ [][NextEmbed]_vars

\* C24 (dimension invariant): compute_embedding returns exactly DIM values for
\* every text, the empty text and None included; the loop hashes a whole
\* number of seeds, the first the bytes of the text and each next one the
\* digest of the one before, takes 16 values from each digest and stops with
\* exactly DIM values.
DimensionInvariant ==
    Called("compute_embedding") =>
       LET r == call.result
       IN  /\ Len(r.values) = DIM
           /\ Len(r.seeds) * 16 = DIM
           /\ \A n \in 1..Len(r.taken) : r.taken[n] = 16
           /\ r.seeds[1] = encode(call.text)
           /\ \A n \in 2..Len(r.seeds) : r.seeds[n] = sha256(r.seeds[n - 1])

DimensionWitness ==
    /\ Called("compute_embedding")
    /\ call.text \in {NoText, <<>>}
    /\ Len(call.result.values) = DIM
    /\ Len(tasks) = MaxEmbedCalls
    /\ \E n \in 1..Len(tasks) : tasks[n].text = <<"a">> /\ Len(tasks[n].result.values) = DIM

Squares(r) == Sum([i \in 1..Len(r.values) |-> r.values[i] * r.values[i]])

\* C26 (normalisation): compute_embedding divides every value by the Euclidean
\* norm of the values, so the vector returned has norm 1 (the squares of its
\* values v / sqrt(norm2) add up to 1); when the norm is zero the divisor is
\* 1.0 instead, nothing is divided by zero and the vector returned is the
\* zero vector unchanged.
Normalisation ==
    Called("compute_embedding") =>
       LET r == call.result
       IN  /\ r.norm2 > 0
           /\ Squares(r) # 0 => Squares(r) = r.norm2
           /\ Squares(r) = 0 =>
                 /\ r.norm2 = VAL_SCALE * VAL_SCALE
                 /\ \A i \in 1..Len(r.values) : r.values[i] = 0

NormalisationWitness ==
    /\ Called("compute_embedding")
    /\ Squares(call.result) = 0
    /\ Len(tasks) >= 2
    /\ Squares(tasks[1].result) > 0
    /\ Squares(tasks[1].result) = tasks[1].result.norm2

\* ------------------------------------------------------------ delete view
\* Direct requests to the delete_document view on stores of finished
\* uploads, each document with its file under MEDIA_ROOT.
DeleteIds == 0..(MaxStored + 1)

InitFiles ==
    /\ docs \in {finished_uploads(u) : u \in SeqUpTo(StoredUploads, MaxStored)}
    /\ media = {docs[d].file_path : d \in DOMAIN docs}
    /\ profiles = <<>>
    /\ next_id = Cardinality(DOMAIN docs) + 1
    /\ available = TRUE
    /\ embedding_model = None
    /\ tasks = <<>>
    /\ requests = 0
    /\ written = {}
    /\ deleted = {}
    /\ created_by = NoDocs
    /\ embedded_by = NoDocs
    /\ community_posts = NoDocs
    /\ study_profiles = <<>>
    /\ call = NoCall

\* DELETE by user_id for doc_id: the call keeps the store before the request
\* and the status of the response.
call_delete_document(doc_id, user_id) ==
    /\ call = NoCall
    /\ LET r == delete_document_view(docs, media, doc_id, user_id)
       IN  /\ docs' = r.store
           /\ media' = r.files
           /\ call' = [op |-> "delete_document", doc_id |-> doc_id, user_id |-> user_id,
                       before |-> docs, status |-> r.status]
    /\ UNCHANGED <<next_id, available, embedding_model, tasks, requests, written,
                   deleted, created_by, embedded_by, profiles, community_posts,
                   study_profiles>>

NextFiles ==
    \/ /\ call = NoCall
       /\ \E doc_id \in DeleteIds, user_id \in Users \cup {0} :
             call_delete_document(doc_id, user_id)
    \/ return_call

SpecFiles == InitFiles /\ [][NextFiles]_vars

\* C27 (the file goes with the document), as claimed: after a DELETE by the
\* owner that removed the document and answered success, the file stored
\* under the document's file_path is no longer in storage.
DeleteRemovesFile ==
    Called("delete_document") /\ call.status = 200 =>
       call.before[call.doc_id].file_path \notin media

\* The request of the last call came from the owner of an existing document.
ByOwner ==
    /\ IsObjectId(call.doc_id) /\ IsObjectId(call.user_id)
    /\ call.doc_id \in DOMAIN call.before
    /\ OwnedBy(call.before[call.doc_id], call.user_id)

\* C28 (owner-only deletion): delete_document removes the document only when
\* user_id owns it, and then nothing else; when user_id is not the owner, or
\* an id is malformed, it returns False (the view answers 404) and every
\* document of the store, with its paragraphs and embeddings, is unchanged.
OwnerOnlyDeletion ==
    Called("delete_document") =>
       /\ ByOwner =>
             docs = [d \in DOMAIN call.before \ {call.doc_id} |-> call.before[d]]
       /\ ~ByOwner => call.status = 404 /\ docs = call.before

OwnerOnlyDeletionWitness ==
    /\ Called("delete_document")
    /\ ~ByOwner
    /\ call.doc_id \in DOMAIN docs
    /\ IsObjectId(call.user_id)
    /\ docs[call.doc_id].paragraphs # <<>>
    /\ Cardinality(DOMAIN docs) = 1
    /\ Cardinality(DOMAIN call.before) = 1
    /\ call.status = 404

\* ----------------------------------------------------------- study profiles
\* core/personalized_study.py.  db.study_profiles is a function from user ids
\* to profiles [user_id, topics, progress, study_path]; progress is a function
\* from topic ids to entries.  A topic keeps its topic_id, title, snippets and
\* embedding (its difficulty is left out).  uuid4() gives an id never given
\* before, taken from next_id.
StudySegmented ==
    [c \in Contents |-> split_text_into_paragraphs(c, STUDY_MIN_LENGTH, STUDY_MAX_LENGTH)]

\* the embedding of a topic that has none (None, or an empty list)
NoEmbedding == Vec(0, 0, 0)

\* (para[:80] + "...") if len(para) > 80 else para
title_of(para) ==
    IF Len(para) > TITLE_LENGTH THEN SubSeq(para, 1, TITLE_LENGTH) \o <<".", ".", ".">>
    ELSE para

\* analyze_user_documents, lines 74-106, for one document: its topics without
\* their ids
document_topics(doc, model) ==
    IF ~Get(doc, "is_processed", FALSE) \/ Get(doc, "content", <<>>) = <<>> THEN <<>>
    ELSE LET paragraphs == StudySegmented[doc.content]
             embeddings == generate_embeddings(paragraphs, available, model, TRUE).vectors
         IN  [i \in 1..Len(paragraphs) |->
                 [title |-> title_of(paragraphs[i]),
                  snippets |-> <<[doc_id |-> doc.id, paragraph_index |-> i - 1,
                                  text |-> paragraphs[i]]>>,
                  embedding |-> IF i <= Len(embeddings) THEN embeddings[i]
                                ELSE NoEmbedding]]

\* The topics of lines 73-106, each with its uuid4: uuid, uuid + 1, ...
topics_of(documents, model, uuid) ==
    LET found == Flatten([d \in 1..Len(documents) |-> document_topics(documents[d], model)])
    IN  [i \in 1..Len(found) |-> SetFields(found[i], [topic_id |-> uuid + i - 1])]

\* cos(a, b) >= threshold (lines 153-162 and 173-174); cos is 0.0 when a norm is 0
similar(a, b) ==
    LET c == Cosine(a, b)
    IN  /\ c.den2 # 0
        /\ c.num > 0
        /\ c.num * c.num * 100 * 100 >= MERGE_THRESHOLD * MERGE_THRESHOLD * c.den2

\* [(x + y) / 2 for x, y in zip(m_emb, t_emb)], kept exactly: the components of
\* the list are head[i] / over
average(m_emb, t_emb) ==
    LET m_over == Get(m_emb, "over", 1)
        t_over == Get(t_emb, "over", 1)
        n == Min2(Dim(m_emb), Dim(t_emb))
    IN  [len |-> n,
         head |-> [i \in 1..Min2(n, 2) |->
                      Component(m_emb, i) * t_over + Component(t_emb, i) * m_over],
         over |-> 2 * m_over * t_over]

\* _merge_similar_topics, lines 164-187, from topic i on
RECURSIVE merge_from(_, _, _)
merge_from(topics, i, merged) ==
    IF i > Len(topics) THEN merged
    ELSE LET t == topics[i]
             like == {j \in 1..Len(merged) :
                         /\ Dim(merged[j].embedding) # 0
                         /\ similar(t.embedding, merged[j].embedding)}
         IN  IF Dim(t.embedding) = 0 \/ like = {}
             THEN merge_from(topics, i + 1, Append(merged, t))
             ELSE LET j == SetMin(like)
                      m == merged[j]
                  IN  merge_from(topics, i + 1,
                         [merged EXCEPT ![j] =
                             SetFields(m, [snippets |-> m.snippets \o t.snippets,
                                           embedding |-> average(m.embedding, t.embedding)])])

merge_similar_topics(topics) == merge_from(topics, 1, <<>>)

\* the progress entry of a topic not practised yet; no time is the empty list
NewProgress ==
    [status |-> "not_started", mastery_score |-> 0, last_practiced |-> <<>>,
     quizzes |-> <<>>]

\* find_one({"user_id": user_id}) on db.study_profiles: none or one
fetch_profile(store, user_id) ==
    IF user_id \in DOMAIN store THEN {store[user_id]} ELSE {}

\* analyze_user_documents, lines 111-133: the profile is inserted, or its
\* topics, progress and study path are replaced; progress keeps the entries
\* of the topic ids that are in the old progress
persist_profile(store, user_id, merged) ==
    LET ids == {merged[i].topic_id : i \in 1..Len(merged)}
        path == [i \in 1..Len(merged) |-> merged[i].topic_id]
        profile == fetch_profile(store, user_id)
    IN  IF profile = {}
        THEN insert_one(store, user_id,
                [user_id |-> user_id, topics |-> merged, study_path |-> path,
                 progress |-> [t \in ids |-> NewProgress]])
        ELSE LET existing_progress == Get(store[user_id], "progress", <<>>)
             IN  update_one(store, user_id,
                    [topics |-> merged, study_path |-> path,
                     progress |-> [t \in ids |->
                                     IF t \in DOMAIN existing_progress
                                     THEN existing_progress[t]
                                     ELSE NewProgress]])

\* a mastery_score, status or quiz_result that is not given
NoScore == -1

\* update_progress, lines 211-236, at time now: [store, returned]
update_progress(store, user_id, topic_id, mastery_score, status, quiz_result, now) ==
    IF fetch_profile(store, user_id) = {} THEN [store |-> store, returned |-> FALSE]
    ELSE LET progress == Get(store[user_id], "progress", <<>>)
             entry == IF topic_id \in DOMAIN progress THEN progress[topic_id] ELSE NewProgress
             scored == IF mastery_score = NoScore THEN entry
                       ELSE SetFields(entry,
                               [mastery_score |-> mastery_score,
                                status |-> IF mastery_score >= MASTERED THEN "mastered"
                                           ELSE IF mastery_score > 0 THEN "in_progress"
                                           ELSE entry.status])
             stated == IF status = None THEN scored ELSE SetFields(scored, [status |-> status])
             quizzed == IF quiz_result = None THEN stated
                        ELSE SetFields(stated,
                                [quizzes |-> Append(stated.quizzes,
                                                    [result |-> quiz_result, timestamp |-> now]),
                                 last_practiced |-> <<now>>])
         IN  [store |-> update_one(store, user_id,
                           [progress |-> [t \in DOMAIN progress \cup {topic_id} |->
                                             IF t = topic_id THEN quizzed ELSE progress[t]]]),
              returned |-> TRUE]

\* analyze_user_documents(user_id) on the documents and the profiles, with the
\* embedding model `model` and uuid4 counting from uuid: [store, merged, uuid]
analyze_user_documents(documents, store, user_id, model, uuid) ==
    LET found == get_user_documents(documents, user_id, 1, STUDY_PAGE_SIZE)
        topics == topics_of(found, model, uuid)
        merged == merge_similar_topics(topics)
    IN  [store |-> persist_profile(store, user_id, merged), merged |-> merged,
         uuid |-> uuid + Len(topics)]

\* The stores of SpecStudy: processed uploads of user 1.
StudyUploads == [user : SpecUsers, file : {FileA, FileB}, by : {HASH}]

\* What update_progress is called with: a score, a status, a quiz result.
ProgressUpdates ==
    {[mastery_score |-> 50, status |-> None, quiz_result |-> None],
     [mastery_score |-> NoScore, status |-> "in_progress", quiz_result |-> None],
     [mastery_score |-> MASTERED, status |-> None, quiz_result |-> "passed"]}

InitStudy ==
    /\ docs \in {finished_uploads(u) : u \in SeqUpTo(StudyUploads, MaxStored)}
    /\ media = {docs[d].file_path : d \in DOMAIN docs}
    /\ profiles = <<>>
    /\ next_id = Cardinality(DOMAIN docs) + 1
    /\ available = TRUE
    /\ embedding_model = None
    /\ tasks = <<>>
    /\ requests = 0
    /\ written = {}
    /\ deleted = {}
    /\ created_by = NoDocs
    /\ embedded_by = NoDocs
    /\ community_posts = NoDocs
    /\ study_profiles = <<>>
    /\ call = NoCall

\* A call of analyze_user_documents(user_id): the call keeps the profile found
\* before it and the topics returned.
call_analyze_user_documents(user_id) ==
    /\ requests < MaxStudyCalls
    /\ requests' = requests + 1
    /\ embedding_model' = get_embedding_model(embedding_model, available, MINI_LM)
    /\ LET r == analyze_user_documents(docs, study_profiles, user_id, embedding_model', next_id)
       IN  /\ study_profiles' = r.store
           /\ next_id' = r.uuid
           /\ call' = [op |-> "analyze_user_documents", user_id |-> user_id,
                       before |-> fetch_profile(study_profiles, user_id),
                       result |-> r.merged]
    /\ UNCHANGED <<docs, available, tasks, written, deleted, created_by, embedded_by,
                   profiles, media, community_posts>>

\* A call of update_progress(user_id, topic_id, ...)
call_update_progress(user_id, topic_id, update) ==
    /\ requests < MaxStudyCalls
    /\ requests' = requests + 1
    /\ LET r == update_progress(study_profiles, user_id, topic_id, update.mastery_score,
                                update.status, update.quiz_result, requests)
       IN  /\ study_profiles' = r.store
           /\ call' = [op |-> "update_progress", user_id |-> user_id,
                       topic_id |-> topic_id, returned |-> r.returned]
    /\ UNCHANGED <<docs, next_id, available, embedding_model, tasks, written, deleted,
                   created_by, embedded_by, profiles, media, community_posts>>

\* the topic ids update_progress is called with: those of the study path of
\* the user, and one that is in no profile
PathOf(user_id) ==
    IF user_id \in DOMAIN study_profiles THEN Entries(study_profiles[user_id].study_path)
    ELSE {}

NextStudy ==
    \/ \E user_id \in SpecUsers : call_analyze_user_documents(user_id)
    \/ \E user_id \in SpecUsers, update \in ProgressUpdates :
          \E topic_id \in PathOf(user_id) \cup {0} :
             call_update_progress(user_id, topic_id, update)

SpecStudy == InitStudy /\ [][NextStudy]_vars

\* The topics b of a profile that come from the paragraphs topic a comes from.
SameParagraphs(a, b) == a.snippets = b.snippets

\* C29 (progress survives re-analysis), as claimed: when a profile existed
\* before analyze_user_documents, every topic of the new profile that is
\* derived from the same paragraphs as a topic of the old one has the status,
\* mastery score and quizzes that topic had.
ProgressPreserved ==
    Called("analyze_user_documents") =>
       \A old \in call.before :
          LET new == study_profiles[call.user_id]
          IN  \A i \in 1..Len(new.topics) : \A j \in 1..Len(old.topics) :
                 SameParagraphs(new.topics[i], old.topics[j]) =>
                    LET was == old.progress[old.topics[j].topic_id]
                        is == new.progress[new.topics[i].topic_id]
                    IN  /\ is.status = was.status
                        /\ is.mastery_score = was.mastery_score
                        /\ is.quizzes = was.quizzes

\* ------------------------------------------------------------------ likes
\* CommunityService.toggle_like (library/models.py:440-465) called
\* concurrently.  db.community_posts is a function from post ids to posts; a
\* call is a find_one followed, in a later step, by one update_one.

\* {"$push": {"likes": user_id}}
push_like(store, post_id, user_id) ==
    IF post_id \in DOMAIN store
    THEN update_one(store, post_id, [likes |-> Append(Get(store[post_id], "likes", <<>>), user_id)])
    ELSE store

\* {"$pull": {"likes": user_id}}: every occurrence is removed
pull_like(store, post_id, user_id) ==
    IF post_id \in DOMAIN store /\ "likes" \in DOMAIN store[post_id]
    THEN LET Other(x) == x # user_id
         IN  update_one(store, post_id, [likes |-> SelectSeq(store[post_id].likes, Other)])
    ELSE store

\* the posts the calls name: post 1 exists, post 2 does not
PostIds == {1, 2}

\* the likes post 1 starts with
InitialLikes == {<<>>, <<2>>}

InitLikes ==
    /\ community_posts \in {[p \in {1} |-> [id |-> 1, likes |-> likes]] : likes \in InitialLikes}
    /\ docs = NoDocs
    /\ media = {}
    /\ profiles = <<>>
    /\ next_id = 1
    /\ available = TRUE
    /\ embedding_model = None
    /\ tasks = <<>>
    /\ requests = 0
    /\ written = {}
    /\ deleted = {}
    /\ created_by = NoDocs
    /\ embedded_by = NoDocs
    /\ study_profiles = <<>>
    /\ call = NoCall

\* Lines 443-449: find_one; a call for a post that is not found returns
\* {"success": False}.  The likes read are kept by the call.
toggle_like_find(post_id, user_id) ==
    /\ requests < MaxLikeCalls
    /\ requests' = requests + 1
    /\ tasks' = Append(tasks,
          IF post_id \in DOMAIN community_posts
          THEN [op |-> "toggle_like", pc |-> "update", post_id |-> post_id,
                user_id |-> user_id,
                likes |-> Get(community_posts[post_id], "likes", <<>>)]
          ELSE [op |-> "toggle_like", pc |-> "done", post_id |-> post_id,
                user_id |-> user_id, success |-> FALSE])
    /\ UNCHANGED <<docs, next_id, available, embedding_model, written, deleted,
                   created_by, embedded_by, profiles, media, community_posts,
                   study_profiles, call>>

\* Lines 451-465: the $pull or the $push, chosen by the likes read, and the
\* result.  left is a history field: the length of the likes list right
\* after the write.
toggle_like_update(t) ==
    /\ t \in 1..Len(tasks)
    /\ tasks[t].op = "toggle_like" /\ tasks[t].pc = "update"
    /\ LET c == tasks[t]
           liked == c.user_id \in Entries(c.likes)
       IN  /\ community_posts' = IF liked THEN pull_like(community_posts, c.post_id, c.user_id)
                                 ELSE push_like(community_posts, c.post_id, c.user_id)
           /\ tasks' = [tasks EXCEPT ![t] =
                 SetFields(c, [pc |-> "done", success |-> TRUE, liked |-> ~liked,
                               count |-> IF liked THEN Len(c.likes) - 1 ELSE Len(c.likes) + 1,
                               left |-> Len(community_posts'[c.post_id].likes)])]
    /\ UNCHANGED <<docs, next_id, available, embedding_model, requests, written,
                   deleted, created_by, embedded_by, profiles, media, study_profiles,
                   call>>

NextLikes ==
    \/ \E post_id \in PostIds, user_id \in Users : toggle_like_find(post_id, user_id)
    \/ \E t \in 1..Len(tasks) : toggle_like_update(t)

SpecLikes == InitLikes /\ [][NextLikes]_vars

\* C30 (likes under concurrency), as claimed: whatever the interleaving of the
\* toggle_like calls, no user id is twice in the likes of a post, and the
\* count a call returned is the length of the likes right after its write.
LikeUniqueness ==
    /\ \A p \in DOMAIN community_posts :
          \A i \in 1..Len(community_posts[p].likes) :
             \A j \in 1..Len(community_posts[p].likes) :
                community_posts[p].likes[i] = community_posts[p].likes[j] => i = j
    /\ \A t \in 1..Len(tasks) :
          tasks[t].pc = "done" /\ tasks[t].success => tasks[t].count = tasks[t].left

====
